---- MODULE Spec2Model ----
(***************************************************************************)
(* State-machine model of the JIT access controller                        *)
(* (dgwhited/jit-aws-controller).  Every Lambda invocation is a process    *)
(* whose steps are its calls to the store (DynamoDB), the identity         *)
(* provider, the audit log and the webhook; invocations interleave at      *)
(* these calls and share nothing but the store.                            *)
(***************************************************************************)
EXTENDS Integers, Sequences, FiniteSets, TLC

(***************************************************************************)
(* Bounds of the model.                                                    *)
(***************************************************************************)
MaxRequests == 1
MaxRequestIds == 2
MaxApiCalls == 2
MaxTicks == 1
MaxSends == 2
MaxValidations == 2
MaxAuthTicks == 3
MaxIdentityCalls == 2
MaxNotifyCalls == 2

(***************************************************************************)
(* Program constants.                                                      *)
(***************************************************************************)
DefaultMaxRequestHours == 4
SfnMaxAttempts == 3
MinutesPerHour == 60
TickMinutes == MinutesPerHour
\* maxTimestampSkew = 5 * time.Minute, in seconds
MaxTimestampSkew == 300
\* timeout of the API Lambda, seconds
ApiLambdaTimeout == 30

StatusPending == "PENDING"
StatusApproved == "APPROVED"
StatusDenied == "DENIED"
StatusGranted == "GRANTED"
StatusRevoked == "REVOKED"
StatusExpired == "EXPIRED"
StatusError == "ERROR"
Statuses == {StatusPending, StatusApproved, StatusDenied, StatusGranted,
             StatusRevoked, StatusExpired, StatusError}

EventRequested == "REQUESTED"
EventApproved == "APPROVED"
EventDenied == "DENIED"
EventGranted == "GRANTED"
EventRevoked == "REVOKED"
EventExpired == "EXPIRED"
EventError == "ERROR"
EventTypes == {EventRequested, EventApproved, EventDenied, EventGranted,
               EventRevoked, EventExpired, EventError}

\* the request ids a client may present; a request exists for at most
\* MaxRequests of them
ReqIds == 1..MaxRequestIds
Procs == 1..MaxApiCalls
Channels == {"ch1", "ch2"}
Accounts == {"acct1"}
\* chat users: the requester, a designated approver
Users == {"u_r", "u_a"}

NoReq == [status |-> "NONE"]
NoCfg == [exists |-> FALSE]

VARIABLES
    configs,    \* jit_config table: <<channel_id, account_id>> -> JitConfig or NoCfg
    requests,   \* jit_requests table: request_id -> JitRequest or NoReq
    auditLog,   \* jit_audit table: request_id -> event type -> number of events
    hist,       \* per request, the sequence of status values the store has held
    grantCommits, \* per request, the number of successful APPROVED->GRANTED updates
    callbacks,  \* per request and status, the number of webhook callbacks sent
    assigned,   \* identity provider: whether the account assignment exists
    api,        \* in-flight API Gateway invocations of the API Lambda
    wf,         \* Step Functions executions, named by request_id
    rec,        \* the reconciler Lambda invocation
    createdUnder, \* per request, the max_request_hours its creation read
    now,        \* wall clock, minutes
    ticks,      \* number of clock advances so far
    secretKeys, \* the signing-keys secret: key id -> secret
    signingKeys, \* HMACValidator.SigningKeys, as loaded at cold start
    signer,     \* the key id and secret the plugin signs with
    nonces,     \* jit_nonces table
    wire,       \* signed requests the plugin has sent (and an observer holds)
    val,        \* in-flight request validations of the API Lambda
    accepts,    \* the validations that succeeded, in order
    authNow,    \* wall clock, seconds
    authTicks,  \* number of advances of authNow
    idc,        \* the call of identity.Client.RevokeAccess in progress
    hook        \* the call of webhook.Client.Notify in progress

lifecycleVars == <<configs, requests, auditLog, hist, grantCommits, callbacks,
                   assigned, api, wf, rec, createdUnder, now, ticks>>

authVars == <<secretKeys, signingKeys, signer, nonces, wire, val, accepts,
              authNow, authTicks>>

clientVars == <<idc, hook>>

vars == <<lifecycleVars, authVars, clientVars>>

storeVars == <<requests, hist, grantCommits>>

(***************************************************************************)
(* Store primitives (internal/dynamo).                                     *)
(***************************************************************************)
Count(seq, x) == Cardinality({i \in 1..Len(seq) : seq[i] = x})

GetRequest(rid) == requests[rid]

GetConfig(ch, acct) == configs[<<ch, acct>>]

\* The mutation a plausible bug makes: a read-modify-write without the
\* precondition on the stored status.
ConditionHoldsUnchecked(rid, expectedStatus) == requests[rid] # NoReq

\* ConditionExpression "#status = :expected" of ConditionalUpdateStatus; an
\* absent item has no status attribute, so the condition fails.
ConditionHolds(rid, expectedStatus) ==
    /\ requests[rid] # NoReq
    /\ requests[rid].status = expectedStatus

\* This mutation restarts the access window when the grant commits: the
\* update that carries grant_time also rewrites end_time.
UpdatedItemRestartsWindow(rid, updates) ==
    [f \in DOMAIN requests[rid] |->
        IF f \in DOMAIN updates THEN updates[f]
        ELSE IF f = "end_time" /\ "grant_time" \in DOMAIN updates
             THEN updates.grant_time + requests[rid].dur
        ELSE requests[rid][f]]

\* The item after "SET field = value, ..." of ConditionalUpdateStatus.
UpdatedItem(rid, updates) ==
    [f \in DOMAIN requests[rid] |->
        IF f \in DOMAIN updates THEN updates[f] ELSE requests[rid][f]]

\* ConditionalUpdateStatus as a next-state relation on the store: commits
\* when the condition holds, otherwise leaves the store unchanged (the
\* caller sees ConditionalCheckFailed).
ConditionalUpdateStatus(rid, expectedStatus, updates) ==
    IF ConditionHolds(rid, expectedStatus)
    THEN /\ requests' = [requests EXCEPT ![rid] = UpdatedItem(rid, updates)]
         /\ hist' = [hist EXCEPT ![rid] = Append(@, updates.status)]
         /\ grantCommits' = [grantCommits EXCEPT ![rid] =
                IF updates.status = StatusGranted THEN @ + 1 ELSE @]
    ELSE UNCHANGED storeVars

\* Audit.Log: an unconditional put keyed by event_time#event_id.
AuditLogged(rid, eventType) == [auditLog EXCEPT ![rid][eventType] = @ + 1]

\* Webhook.Notify: a signed callback carrying the status.
Notified(rid, status) == [callbacks EXCEPT ![rid][status] = @ + 1]

\* Identity.GrantAccess / RevokeAccess succeeded for the request's
\* (account, user): the account assignment exists / is gone.
Assigned(rid) ==
    [assigned EXCEPT ![<<requests[rid].acct, requests[rid].requester>>] = TRUE]

Unassigned(rid) ==
    [assigned EXCEPT ![<<requests[rid].acct, requests[rid].requester>>] = FALSE]

(***************************************************************************)
(* API invocations.                                                        *)
(***************************************************************************)
Idle == [op |-> "none", pc |-> "idle", rid |-> 0, actor |-> "none",
         ch |-> "none", acct |-> "none", dur |-> 0, limit |-> 0,
         seen |-> "NONE", cfg |-> NoCfg, started |-> "none", resp |-> "none"]

Done(slot, resp) == [slot EXCEPT !.pc = "done", !.resp = resp]

IsIdle(p) == api[p].pc = "idle"

\* a new invocation takes the first free slot (slots are interchangeable)
Free(p) == IsIdle(p) /\ \A q \in Procs : q < p => ~IsIdle(q)

At(p, op, pc) == api[p].op = op /\ api[p].pc = pc

\* The API Lambda returns its response; the invocation ends.
Return(p) ==
    /\ api[p].pc = "done"
    /\ api' = [api EXCEPT ![p] = Idle]
    /\ UNCHANGED <<configs, requests, auditLog, hist, grantCommits, callbacks,
                   assigned, wf, rec, createdUnder, now, ticks>>
    /\ UNCHANGED <<authVars, clientVars>>

apiOnly == <<configs, requests, auditLog, hist, grantCommits, callbacks,
             assigned, wf, rec, createdUnder, now, ticks>>

(***************************************************************************)
(* The router's answer to the approve, deny and revoke endpoints.          *)
(***************************************************************************)
StatusOK == 200
StatusBadRequest == 400
StatusUnauthorized == 401
StatusNotFound == 404

\* strings.Contains(err.Error(), "not found"): of the errors the three
\* handlers return, only "request %s not found" has the words
MentionsNotFound(resp) == resp = "not_found"

\* handleApproveRequest, handleDenyRequest and handleRevokeRequest: 200 with
\* the request, else 400, or 404 when the error text says "not found"
TransitionStatusCode(resp) ==
    IF resp = "ok" THEN StatusOK
    ELSE IF MentionsNotFound(resp) THEN StatusNotFound
    ELSE StatusBadRequest

Exists(rid) == requests[rid] # NoReq

\* requests being created: rows plus creations still in flight
Creating == {p \in Procs : api[p].op = "create" /\ api[p].pc \in {"lookup", "put"}}

\* uuid.New(): an identifier no row has
FreshId == CHOOSE r \in ReqIds : ~Exists(r) /\ \A q \in ReqIds : q < r => Exists(q)

(***************************************************************************)
(* POST /requests: HandleCreateRequest.                                    *)
(***************************************************************************)
\* "maxMinutes > 0 && duration > maxMinutes" rejects; this mutation drops
\* the comparison.
DurationExceedsMaxNever(maxRequestHours, durationMinutes) == FALSE

DurationExceedsMax(maxRequestHours, durationMinutes) ==
    /\ maxRequestHours * MinutesPerHour > 0
    /\ durationMinutes > maxRequestHours * MinutesPerHour

\* Field validation, the binding lookup and the duration check.
CreateValidateSlot(p, ch, acct, requester, dur) ==
    /\ Free(p)
    /\ Cardinality({r \in ReqIds : Exists(r)}) + Cardinality(Creating) < MaxRequests
    /\ LET cfg == GetConfig(ch, acct)
           slot == [Idle EXCEPT !.op = "create", !.ch = ch, !.acct = acct,
                                !.actor = requester, !.dur = dur]
       IN api' = [api EXCEPT ![p] =
            IF dur <= 0 THEN Done(slot, "invalid_input")
            ELSE IF cfg = NoCfg THEN Done(slot, "no_binding")
            ELSE IF DurationExceedsMax(cfg.maxRequestHours, dur)
                 THEN Done([slot EXCEPT !.limit = cfg.maxRequestHours],
                           "duration_exceeds_max")
            ELSE [slot EXCEPT !.pc = "lookup", !.limit = cfg.maxRequestHours]]
    /\ UNCHANGED apiOnly

CreateValidate(p, ch, acct, requester, dur) ==
    /\ CreateValidateSlot(p, ch, acct, requester, dur)
    /\ UNCHANGED <<authVars, clientVars>>

\* Identity.LookupUserByEmail: resolves the requester or fails.
CreateLookup(p, found) ==
    /\ At(p, "create", "lookup")
    /\ api' = [api EXCEPT ![p] =
            IF found THEN [@ EXCEPT !.pc = "put"] ELSE Done(@, "identity_lookup")]
    /\ UNCHANGED apiOnly
    /\ UNCHANGED <<authVars, clientVars>>

\* DB.CreateRequest: the row is written PENDING with end_time = now + duration.
CreatePut(p) ==
    /\ At(p, "create", "put")
    /\ LET rid == FreshId
       IN /\ requests' = [requests EXCEPT ![rid] =
                [status |-> StatusPending, requester |-> api[p].actor,
                 ch |-> api[p].ch, acct |-> api[p].acct, dur |-> api[p].dur,
                 created_at |-> now, end_time |-> now + api[p].dur,
                 grant_time |-> -1, approver |-> "none",
                 expired_at |-> -1, error_details |-> ""]]
          /\ hist' = [hist EXCEPT ![rid] = <<StatusPending>>]
          /\ createdUnder' = [createdUnder EXCEPT ![rid] = api[p].limit]
          /\ api' = [api EXCEPT ![p] = [@ EXCEPT !.pc = "audit", !.rid = rid]]
    /\ UNCHANGED <<configs, auditLog, grantCommits, callbacks, assigned, wf, rec,
                   now, ticks>>
    /\ UNCHANGED <<authVars, clientVars>>

\* Audit.Log(REQUESTED), then the 201 response.
CreateAudit(p) ==
    /\ At(p, "create", "audit")
    /\ auditLog' = AuditLogged(api[p].rid, EventRequested)
    /\ api' = [api EXCEPT ![p] = Done(@, "ok")]
    /\ UNCHANGED <<configs, requests, hist, grantCommits, callbacks, assigned, wf,
                   rec, createdUnder, now, ticks>>
    /\ UNCHANGED <<authVars, clientVars>>

(***************************************************************************)
(* POST /requests/{id}/approve and /deny.                                  *)
(***************************************************************************)
\* GetRequest and the status check, shared by approve, deny and revoke.
ReadForTransition(p, op, rid, actor, expectedStatus) ==
    /\ Free(p)
    /\ LET req == GetRequest(rid)
           slot == [Idle EXCEPT !.op = op, !.rid = rid, !.actor = actor]
       IN api' = [api EXCEPT ![p] =
            IF req = NoReq THEN Done(slot, "not_found")
            ELSE IF req.status # expectedStatus THEN Done(slot, "wrong_status")
            ELSE [slot EXCEPT !.pc = "config", !.ch = req.ch, !.acct = req.acct]]
    /\ UNCHANGED apiOnly
    /\ UNCHANGED <<authVars, clientVars>>

\* the loop over cfg.ApproverMMUserIDs
IsApprover(cfg, actor) == actor \in cfg.approvers

\* This mutation drops the self-approval check.
SelfApprovalBlockedNever(cfg, actor, requester) == FALSE

\* "!cfg.AllowSelfApproval && approver == req.RequesterMMUserID"
SelfApprovalBlocked(cfg, actor, requester) ==
    ~cfg.allowSelfApproval /\ actor = requester

\* The approver-membership and self-approval checks; skipped when the
\* binding is gone (cfg == nil).
Authorize(p, op, checkSelf) ==
    /\ At(p, op, "config")
    /\ LET cfg == GetConfig(api[p].ch, api[p].acct)
           req == GetRequest(api[p].rid)
       IN api' = [api EXCEPT ![p] =
            IF cfg # NoCfg /\ ~IsApprover(cfg, api[p].actor)
                THEN Done(@, "not_authorized")
            ELSE IF cfg # NoCfg /\ checkSelf
                    /\ SelfApprovalBlocked(cfg, api[p].actor, req.requester)
                THEN Done(@, "self_approval")
            ELSE [@ EXCEPT !.pc = "update"]]
    /\ UNCHANGED apiOnly
    /\ UNCHANGED <<authVars, clientVars>>

ApproveRead(p, rid, actor) == ReadForTransition(p, "approve", rid, actor, StatusPending)

ApproveAuthorize(p) == Authorize(p, "approve", TRUE)

\* ConditionalUpdateStatus(PENDING -> APPROVED).
ApproveUpdate(p) ==
    /\ At(p, "approve", "update")
    /\ ConditionalUpdateStatus(api[p].rid, StatusPending,
            [status |-> StatusApproved, approver |-> api[p].actor])
    /\ api' = [api EXCEPT ![p] =
            IF ConditionHolds(api[p].rid, StatusPending)
            THEN [@ EXCEPT !.pc = "audit"] ELSE Done(@, "conflict")]
    /\ UNCHANGED <<configs, auditLog, callbacks, assigned, wf, rec, createdUnder,
                   now, ticks>>
    /\ UNCHANGED <<authVars, clientVars>>

ApproveAudit(p) ==
    /\ At(p, "approve", "audit")
    /\ auditLog' = AuditLogged(api[p].rid, EventApproved)
    /\ api' = [api EXCEPT ![p] = [@ EXCEPT !.pc = "start"]]
    /\ UNCHANGED <<configs, requests, hist, grantCommits, callbacks, assigned, wf,
                   rec, createdUnder, now, ticks>>
    /\ UNCHANGED <<authVars, clientVars>>

\* no execution of the state machine has the request's name; startCalls
\* counts the StartExecution calls made with that name, endedIn is the
\* state an ended execution ran last (its execution history)
NoExecution == [state |-> "NotStarted", pc |-> "none", attempt |-> 0, waitUntil |-> 0,
                startCalls |-> 0, endedIn |-> "none"]

\* This mutation returns the StartExecution error to the caller.
StartResponseStrict(started) == IF started THEN "ok" ELSE "workflow_error"

\* the error of StartExecution is logged and the request is returned
StartResponse(started) == "ok"

\* SFN.StartExecution named by the request id; a failure (or a name that
\* already exists) is only logged and the approval still returns the request.
ApproveStartWorkflow(p, started) ==
    /\ At(p, "approve", "start")
    /\ wf' = [wf EXCEPT ![api[p].rid] =
            [(IF started /\ @.state = "NotStarted"
              THEN [@ EXCEPT !.state = "ValidateRequest"] ELSE @)
             EXCEPT !.startCalls = @ + 1]]
    /\ api' = [api EXCEPT ![p] =
            Done([@ EXCEPT !.started = IF started THEN "ok" ELSE "failed"],
                 StartResponse(started))]
    /\ UNCHANGED <<configs, requests, auditLog, hist, grantCommits, callbacks,
                   assigned, rec, createdUnder, now, ticks>>
    /\ UNCHANGED <<authVars, clientVars>>

DenyRead(p, rid, actor) == ReadForTransition(p, "deny", rid, actor, StatusPending)

DenyAuthorize(p) == Authorize(p, "deny", FALSE)

\* ConditionalUpdateStatus(PENDING -> DENIED).
DenyUpdate(p) ==
    /\ At(p, "deny", "update")
    /\ ConditionalUpdateStatus(api[p].rid, StatusPending,
            [status |-> StatusDenied, approver |-> api[p].actor])
    /\ api' = [api EXCEPT ![p] =
            IF ConditionHolds(api[p].rid, StatusPending)
            THEN [@ EXCEPT !.pc = "audit"] ELSE Done(@, "conflict")]
    /\ UNCHANGED <<configs, auditLog, callbacks, assigned, wf, rec, createdUnder,
                   now, ticks>>
    /\ UNCHANGED <<authVars, clientVars>>

DenyAudit(p) ==
    /\ At(p, "deny", "audit")
    /\ auditLog' = AuditLogged(api[p].rid, EventDenied)
    /\ api' = [api EXCEPT ![p] = Done(@, "ok")]
    /\ UNCHANGED <<configs, requests, hist, grantCommits, callbacks, assigned, wf,
                   rec, createdUnder, now, ticks>>
    /\ UNCHANGED <<authVars, clientVars>>

(***************************************************************************)
(* POST /requests/{id}/revoke: HandleRevokeRequest (break-glass).          *)
(***************************************************************************)
IdentityOutcomes == {"ok", "failed"}

\* This mutation lets a manual revoke proceed from any status.
RevocableAlways(status) == TRUE

\* "req.Status != GRANTED" rejects the revoke.
Revocable(status) == status = StatusGranted

RevokeRead(p, rid, actor) ==
    /\ Free(p)
    /\ LET req == GetRequest(rid)
           slot == [Idle EXCEPT !.op = "revoke", !.rid = rid, !.actor = actor,
                                !.seen = req.status]
       IN api' = [api EXCEPT ![p] =
            IF req = NoReq THEN Done(slot, "not_found")
            ELSE IF ~Revocable(req.status) THEN Done(slot, "wrong_status")
            ELSE [slot EXCEPT !.pc = "identity", !.ch = req.ch, !.acct = req.acct]]
    /\ UNCHANGED apiOnly
    /\ UNCHANGED <<authVars, clientVars>>

\* Identity.RevokeAccess: deletes the assignment, or fails after its retries.
RevokeIdentity(p, outcome) ==
    /\ At(p, "revoke", "identity")
    /\ assigned' = IF outcome = "ok" THEN Unassigned(api[p].rid) ELSE assigned
    /\ api' = [api EXCEPT ![p] =
            [@ EXCEPT !.pc = IF outcome = "ok" THEN "update" ELSE "error"]]
    /\ UNCHANGED <<configs, requests, auditLog, hist, grantCommits, callbacks, wf,
                   rec, createdUnder, now, ticks>>
    /\ UNCHANGED <<authVars, clientVars>>

\* The identity call failed: GRANTED -> ERROR (result ignored), and the
\* error is returned.  No audit event and no callback are produced here.
RevokeMarkError(p) ==
    /\ At(p, "revoke", "error")
    /\ ConditionalUpdateStatus(api[p].rid, StatusGranted,
            [status |-> StatusError, error_details |-> "revoke access failed"])
    /\ api' = [api EXCEPT ![p] = Done(@, "identity_error")]
    /\ UNCHANGED <<configs, auditLog, callbacks, assigned, wf, rec, createdUnder,
                   now, ticks>>
    /\ UNCHANGED <<authVars, clientVars>>

\* ConditionalUpdateStatus(GRANTED -> REVOKED).
RevokeUpdate(p) ==
    /\ At(p, "revoke", "update")
    /\ ConditionalUpdateStatus(api[p].rid, StatusGranted, [status |-> StatusRevoked])
    /\ api' = [api EXCEPT ![p] =
            IF ConditionHolds(api[p].rid, StatusGranted)
            THEN [@ EXCEPT !.pc = "audit"] ELSE Done(@, "conflict")]
    /\ UNCHANGED <<configs, auditLog, callbacks, assigned, wf, rec, createdUnder,
                   now, ticks>>
    /\ UNCHANGED <<authVars, clientVars>>

\* Audit.Log(REVOKED) and the REVOKED callback.
RevokeAudit(p) ==
    /\ At(p, "revoke", "audit")
    /\ auditLog' = AuditLogged(api[p].rid, EventRevoked)
    /\ callbacks' = Notified(api[p].rid, StatusRevoked)
    /\ api' = [api EXCEPT ![p] = Done(@, "ok")]
    /\ UNCHANGED <<configs, requests, hist, grantCommits, assigned, wf, rec,
                   createdUnder, now, ticks>>
    /\ UNCHANGED <<authVars, clientVars>>

(***************************************************************************)
(* The grant workflow: the Step Functions state machine and the action     *)
(* handlers its Task states invoke.                                        *)
(***************************************************************************)
InState(r, state, pc) == wf[r].state = state /\ wf[r].pc = pc

Goto(w, state) == [w EXCEPT !.state = state, !.pc = "none", !.attempt = 0]

\* the execution ends ("End": true, or a failed state without Catch)
Ended(w, result) == [Goto(w, result) EXCEPT !.endedIn = w.state]

\* A failed Task attempt under Retry {MaxAttempts} and Catch {States.ALL}:
\* the task is invoked again until the retries are used up, then the
\* execution moves to the catch target.
TaskFailed(w, catchTarget) ==
    IF w.attempt < SfnMaxAttempts
    THEN [w EXCEPT !.attempt = @ + 1, !.pc = "none"]
    ELSE Goto(w, catchTarget)

\* This mutation validates any request that exists.
ValidatedIfExists(req) == req # NoReq

\* handleValidate: "req == nil" and "req.Status != models.StatusApproved"
\* are errors
Validated(req) == req # NoReq /\ req.status = StatusApproved

\* ValidateRequest / handleValidate: no Retry and no Catch, so an error
\* fails the execution.
WfValidate(r) ==
    /\ InState(r, "ValidateRequest", "none")
    /\ wf' = [wf EXCEPT ![r] =
            IF Validated(GetRequest(r))
            THEN Goto(@, "GrantAccess") ELSE Ended(@, "Failed")]
    /\ UNCHANGED <<configs, requests, auditLog, hist, grantCommits, callbacks,
                   assigned, api, rec, createdUnder, now, ticks>>
    /\ UNCHANGED <<authVars, clientVars>>

\* GrantAccess / handleGrant: GetRequest (no status check), then
\* Identity.GrantAccess.
WfGrantIdentity(r, outcome) ==
    /\ InState(r, "GrantAccess", "none")
    /\ assigned' = IF outcome = "ok" THEN Assigned(r) ELSE assigned
    /\ wf' = [wf EXCEPT ![r] =
            IF outcome = "ok" THEN [@ EXCEPT !.pc = "update"]
            ELSE TaskFailed(@, "HandleGrantError")]
    /\ UNCHANGED <<configs, requests, auditLog, hist, grantCommits, callbacks,
                   api, rec, createdUnder, now, ticks>>
    /\ UNCHANGED <<authVars, clientVars>>

\* handleGrant: ConditionalUpdateStatus(APPROVED -> GRANTED, grant_time).
WfGrantUpdate(r) ==
    /\ InState(r, "GrantAccess", "update")
    /\ ConditionalUpdateStatus(r, StatusApproved,
            [status |-> StatusGranted, grant_time |-> now])
    /\ wf' = [wf EXCEPT ![r] =
            IF ConditionHolds(r, StatusApproved) THEN [@ EXCEPT !.pc = "audit"]
            ELSE TaskFailed(@, "HandleGrantError")]
    /\ UNCHANGED <<configs, auditLog, callbacks, assigned, api, rec, createdUnder,
                   now, ticks>>
    /\ UNCHANGED <<authVars, clientVars>>

\* handleGrant: Audit.Log(GRANTED) and the result.  The engine either
\* receives the result or sees the invocation fail (Lambda.ServiceException,
\* Lambda.SdkClientException: the errors the Retry names) and retries.
WfGrantAudit(r, delivered) ==
    /\ InState(r, "GrantAccess", "audit")
    /\ auditLog' = AuditLogged(r, EventGranted)
    /\ wf' = [wf EXCEPT ![r] =
            IF delivered THEN Goto(@, "NotifyGranted")
            ELSE TaskFailed(@, "HandleGrantError")]
    /\ UNCHANGED <<configs, requests, hist, grantCommits, callbacks, assigned,
                   api, rec, createdUnder, now, ticks>>
    /\ UNCHANGED <<authVars, clientVars>>

\* the ways the NotifyGranted task ends: the callback is delivered; the
\* error of Webhook.Notify is dropped ("_ ="); the task itself fails (the
\* GetRequest error, or the invocation) before the callback is sent
NotifyOutcomes == {"notified", "delivery_error", "step_error"}

\* This mutation lets a failed notification fail the execution.
AfterNotifyGrantedAborts(w, outcome) ==
    IF outcome = "notified" THEN Goto(w, "WaitForDuration") ELSE Ended(w, "Failed")

\* NotifyGranted: Next = "WaitForDuration", and Catch States.ALL with
\* Next = "WaitForDuration"
AfterNotifyGranted(w, outcome) == Goto(w, "WaitForDuration")

\* NotifyGranted / handleNotifyGranted: the GRANTED callback; the wait
\* starts whether or not the notification worked.
WfNotifyGrantedWith(r, outcome) ==
    /\ InState(r, "NotifyGranted", "none")
    /\ callbacks' = IF outcome = "step_error" THEN callbacks
                    ELSE Notified(r, StatusGranted)
    /\ wf' = [wf EXCEPT ![r] =
            [AfterNotifyGranted(@, outcome)
                EXCEPT !.waitUntil = now + GetRequest(r).dur]]
    /\ UNCHANGED <<configs, requests, auditLog, hist, grantCommits, assigned,
                   api, rec, createdUnder, now, ticks>>
    /\ UNCHANGED <<authVars, clientVars>>

WfNotifyGranted(r) == WfNotifyGrantedWith(r, "notified")

\* WaitForDuration: SecondsPath duration_seconds.
WfWait(r) ==
    /\ InState(r, "WaitForDuration", "none")
    /\ now >= wf[r].waitUntil
    /\ wf' = [wf EXCEPT ![r] = Goto(@, "RevokeAccess")]
    /\ UNCHANGED <<configs, requests, auditLog, hist, grantCommits, callbacks,
                   assigned, api, rec, createdUnder, now, ticks>>
    /\ UNCHANGED <<authVars, clientVars>>

\* This mutation drops the check for a request that is already revoked.
AlreadyRevokedNever(status) == FALSE

\* "req.Status == models.StatusRevoked || req.Status == models.StatusExpired"
AlreadyRevoked(status) == status \in {StatusRevoked, StatusExpired}

\* RevokeAccess / handleRevoke: GetRequest; a request already REVOKED or
\* EXPIRED is skipped and the task succeeds.
WfRevokeRead(r) ==
    /\ InState(r, "RevokeAccess", "none")
    /\ wf' = [wf EXCEPT ![r] =
            IF AlreadyRevoked(GetRequest(r).status)
            THEN Goto(@, "NotifyRevoked") ELSE [@ EXCEPT !.pc = "identity"]]
    /\ UNCHANGED <<configs, requests, auditLog, hist, grantCommits, callbacks,
                   assigned, api, rec, createdUnder, now, ticks>>
    /\ UNCHANGED <<authVars, clientVars>>

\* handleRevoke: Identity.RevokeAccess, whatever the status read was.
WfRevokeIdentity(r, outcome) ==
    /\ InState(r, "RevokeAccess", "identity")
    /\ assigned' = IF outcome = "ok" THEN Unassigned(r) ELSE assigned
    /\ wf' = [wf EXCEPT ![r] =
            IF outcome = "ok" THEN [@ EXCEPT !.pc = "update"]
            ELSE TaskFailed(@, "HandleRevokeError")]
    /\ UNCHANGED <<configs, requests, auditLog, hist, grantCommits, callbacks,
                   api, rec, createdUnder, now, ticks>>
    /\ UNCHANGED <<authVars, clientVars>>

\* This mutation returns the failed conditional update as an error of the
\* task.
AfterRevokeConflictFails(w) == TaskFailed(w, "HandleRevokeError")

\* handleRevoke returns the result "already_handled" when the conditional
\* update fails: the task succeeds and the execution moves on.
AfterRevokeConflict(w) == Goto(w, "NotifyRevoked")

\* handleRevoke: ConditionalUpdateStatus(GRANTED -> EXPIRED); a failed
\* condition is reported as success ("already_handled").
WfRevokeUpdate(r) ==
    /\ InState(r, "RevokeAccess", "update")
    /\ ConditionalUpdateStatus(r, StatusGranted,
            [status |-> StatusExpired, expired_at |-> now])
    /\ wf' = [wf EXCEPT ![r] =
            IF ConditionHolds(r, StatusGranted) THEN [@ EXCEPT !.pc = "audit"]
            ELSE AfterRevokeConflict(@)]
    /\ UNCHANGED <<configs, auditLog, callbacks, assigned, api, rec, createdUnder,
                   now, ticks>>
    /\ UNCHANGED <<authVars, clientVars>>

\* handleRevoke: Audit.Log(EXPIRED) and the result.
WfRevokeAudit(r) ==
    /\ InState(r, "RevokeAccess", "audit")
    /\ auditLog' = AuditLogged(r, EventExpired)
    /\ wf' = [wf EXCEPT ![r] = Goto(@, "NotifyRevoked")]
    /\ UNCHANGED <<configs, requests, hist, grantCommits, callbacks, assigned,
                   api, rec, createdUnder, now, ticks>>
    /\ UNCHANGED <<authVars, clientVars>>

\* NotifyRevoked / handleNotifyRevoked: a callback carrying the status as
\* read; the execution ends.
WfNotifyRevoked(r) ==
    /\ InState(r, "NotifyRevoked", "none")
    /\ callbacks' = Notified(r, GetRequest(r).status)
    /\ wf' = [wf EXCEPT ![r] = Ended(@, "Succeeded")]
    /\ UNCHANGED <<configs, requests, auditLog, hist, grantCommits, assigned,
                   api, rec, createdUnder, now, ticks>>
    /\ UNCHANGED <<authVars, clientVars>>

\* HandleGrantError / handleGrantError: APPROVED -> ERROR.
WfGrantErrorUpdate(r) ==
    /\ InState(r, "HandleGrantError", "none")
    /\ ConditionalUpdateStatus(r, StatusApproved,
            [status |-> StatusError, error_details |-> "grant step failed"])
    /\ wf' = [wf EXCEPT ![r] =
            [@ EXCEPT !.pc = IF ConditionHolds(r, StatusApproved)
                             THEN "audit" ELSE "second"]]
    /\ UNCHANGED <<configs, auditLog, callbacks, assigned, api, rec, createdUnder,
                   now, ticks>>
    /\ UNCHANGED <<authVars, clientVars>>

\* handleGrantError: the update from APPROVED failed, GRANTED -> ERROR is
\* tried and its result ignored.
WfGrantErrorSecondUpdate(r) ==
    /\ InState(r, "HandleGrantError", "second")
    /\ ConditionalUpdateStatus(r, StatusGranted,
            [status |-> StatusError, error_details |-> "grant step failed"])
    /\ wf' = [wf EXCEPT ![r] = [@ EXCEPT !.pc = "audit"]]
    /\ UNCHANGED <<configs, auditLog, callbacks, assigned, api, rec, createdUnder,
                   now, ticks>>
    /\ UNCHANGED <<authVars, clientVars>>

\* handleGrantError / handleRevokeError: Audit.Log(ERROR) and the ERROR
\* callback, whatever the updates did; the execution ends.
WfErrorAudit(r, state) ==
    /\ InState(r, state, "audit")
    /\ auditLog' = AuditLogged(r, EventError)
    /\ callbacks' = Notified(r, StatusError)
    /\ wf' = [wf EXCEPT ![r] = Ended(@, "Succeeded")]
    /\ UNCHANGED <<configs, requests, hist, grantCommits, assigned, api, rec,
                   createdUnder, now, ticks>>
    /\ UNCHANGED <<authVars, clientVars>>

WfGrantErrorAudit(r) == WfErrorAudit(r, "HandleGrantError")

\* HandleRevokeError / handleRevokeError: GRANTED -> ERROR, result ignored.
WfRevokeErrorUpdate(r) ==
    /\ InState(r, "HandleRevokeError", "none")
    /\ ConditionalUpdateStatus(r, StatusGranted,
            [status |-> StatusError, error_details |-> "revoke step failed"])
    /\ wf' = [wf EXCEPT ![r] = [@ EXCEPT !.pc = "audit"]]
    /\ UNCHANGED <<configs, auditLog, callbacks, assigned, api, rec, createdUnder,
                   now, ticks>>
    /\ UNCHANGED <<authVars, clientVars>>

WfRevokeErrorAudit(r) == WfErrorAudit(r, "HandleRevokeError")

(***************************************************************************)
(* The reconciler Lambda (cmd/reconciler), run by the EventBridge schedule.*)
(***************************************************************************)
RecIdle == [pc |-> "idle", queue |-> <<>>, errCount |-> 0]

\* This mutation queries by end_time alone, so the reconciler also picks up
\* requests that are not GRANTED.
ExpiredAnyStatus ==
    {r \in ReqIds : Exists(r) /\ requests[r].end_time <= now}

\* QueryRequestsByStatus(GRANTED, now): status = GRANTED and end_time <= now.
ExpiredGrants ==
    {r \in ReqIds : Exists(r) /\ requests[r].status = StatusGranted
                              /\ requests[r].end_time <= now}

\* the index returns the rows in end_time order
RECURSIVE InEndTimeOrder(_)
InEndTimeOrder(S) ==
    IF S = {} THEN <<>>
    ELSE LET first == CHOOSE r \in S : \A q \in S :
                        \/ requests[r].end_time < requests[q].end_time
                        \/ requests[r].end_time = requests[q].end_time /\ r <= q
         IN <<first>> \o InEndTimeOrder(S \ {first})

\* the loop moves to the next request, or to the end of the run
RecAdvance(rc) ==
    [rc EXCEPT !.queue = Tail(@),
               !.pc = IF Len(rc.queue) > 1 THEN "identity" ELSE "finish"]

\* Reconciler.Handle: the query that starts a run.
RecQuery ==
    /\ rec.pc = "idle"
    /\ LET found == InEndTimeOrder(ExpiredGrants)
       IN rec' = [RecIdle EXCEPT !.queue = found,
                    !.pc = IF found = <<>> THEN "finish" ELSE "identity"]
    /\ UNCHANGED <<configs, requests, auditLog, hist, grantCommits, callbacks,
                   assigned, api, wf, createdUnder, now, ticks>>
    /\ UNCHANGED <<authVars, clientVars>>

\* revokeExpired: Identity.RevokeAccess.
RecRevokeIdentity(outcome) ==
    /\ rec.pc = "identity"
    /\ assigned' = IF outcome = "ok" THEN Unassigned(Head(rec.queue)) ELSE assigned
    /\ rec' = [rec EXCEPT !.pc = IF outcome = "ok" THEN "update" ELSE "error"]
    /\ UNCHANGED <<configs, requests, auditLog, hist, grantCommits, callbacks,
                   api, wf, createdUnder, now, ticks>>
    /\ UNCHANGED <<authVars, clientVars>>

\* revokeExpired, identity failure: GRANTED -> ERROR, result ignored.
RecMarkError ==
    /\ rec.pc = "error"
    /\ ConditionalUpdateStatus(Head(rec.queue), StatusGranted,
            [status |-> StatusError, error_details |-> "reconciler revoke failed"])
    /\ rec' = [rec EXCEPT !.pc = "erroraudit"]
    /\ UNCHANGED <<configs, auditLog, callbacks, assigned, api, wf, createdUnder,
                   now, ticks>>
    /\ UNCHANGED <<authVars, clientVars>>

\* revokeExpired, identity failure: Audit.Log(ERROR), whatever the update
\* did; the error is counted and the loop continues.
RecErrorAudit ==
    /\ rec.pc = "erroraudit"
    /\ auditLog' = AuditLogged(Head(rec.queue), EventError)
    /\ rec' = [RecAdvance(rec) EXCEPT !.errCount = @ + 1]
    /\ UNCHANGED <<configs, requests, hist, grantCommits, callbacks, assigned,
                   api, wf, createdUnder, now, ticks>>
    /\ UNCHANGED <<authVars, clientVars>>

\* revokeExpired: ConditionalUpdateStatus(GRANTED -> EXPIRED); a failed
\* condition ends the request's turn without error.
RecUpdate ==
    /\ rec.pc = "update"
    /\ ConditionalUpdateStatus(Head(rec.queue), StatusGranted,
            [status |-> StatusExpired, expired_at |-> now])
    /\ rec' = IF ConditionHolds(Head(rec.queue), StatusGranted)
              THEN [rec EXCEPT !.pc = "audit"] ELSE RecAdvance(rec)
    /\ UNCHANGED <<configs, auditLog, callbacks, assigned, api, wf, createdUnder,
                   now, ticks>>
    /\ UNCHANGED <<authVars, clientVars>>

\* revokeExpired: Audit.Log(EXPIRED) and the EXPIRED callback.
RecAudit ==
    /\ rec.pc = "audit"
    /\ auditLog' = AuditLogged(Head(rec.queue), EventExpired)
    /\ callbacks' = Notified(Head(rec.queue), StatusExpired)
    /\ rec' = RecAdvance(rec)
    /\ UNCHANGED <<configs, requests, hist, grantCommits, assigned, api, wf,
                   createdUnder, now, ticks>>
    /\ UNCHANGED <<authVars, clientVars>>

\* the value Reconciler.Handle returns at the end of a run
RecResult == IF rec.errCount > 0 THEN "error" ELSE "ok"

\* Reconciler.Handle returns; the invocation ends.
RecFinish ==
    /\ rec.pc = "finish"
    /\ rec' = RecIdle
    /\ UNCHANGED <<configs, requests, auditLog, hist, grantCommits, callbacks,
                   assigned, api, wf, createdUnder, now, ticks>>
    /\ UNCHANGED <<authVars, clientVars>>

(***************************************************************************)
(* Time.                                                                   *)
(***************************************************************************)
Tick ==
    /\ ticks < MaxTicks
    /\ now' = now + TickMinutes
    /\ ticks' = ticks + 1
    /\ UNCHANGED <<configs, requests, auditLog, hist, grantCommits, callbacks,
                   assigned, api, wf, rec, createdUnder>>
    /\ UNCHANGED <<authVars, clientVars>>

(***************************************************************************)
(* The request lifecycle: one onboarded binding, requests created,         *)
(* decided, granted, revoked and reconciled.                               *)
(***************************************************************************)
JitConfig(approvers, allowSelfApproval, maxRequestHours) ==
    [exists |-> TRUE, approvers |-> approvers,
     allowSelfApproval |-> allowSelfApproval, maxRequestHours |-> maxRequestHours]

OnboardedConfigs ==
    [k \in Channels \X Accounts |->
        IF k = <<"ch1", "acct1">>
        THEN JitConfig({"u_a"}, FALSE, DefaultMaxRequestHours) ELSE NoCfg]

LifecycleDurations == {60}

(***************************************************************************)
(* Request signing: the state of the HMAC validator, the signing-keys      *)
(* secret, the plugin's signer and the nonce table.                        *)
(***************************************************************************)
Validators == 1..MaxValidations
KeyIds == {"k1", "k2"}
NonceValues == {"n1", "n2"}

\* the secret generated for a key id
KeySecret == [k \in KeyIds |-> IF k = "k1" THEN "s1" ELSE "s2"]

NoMsg == [kid |-> "none", ts |-> 0, nonce |-> "none", sig |-> <<>>]

ValIdle == [pc |-> "idle", msg |-> NoMsg, since |-> 0, resp |-> "none"]

\* no call of the identity client or of the webhook client is in progress;
\* log and calls keep what the calls so far returned
IdcIdle == [pc |-> "idle", pair |-> <<"none", "none">>, attempt |-> 0,
            answer |-> "none", cancelled |-> FALSE, result |-> "none"]

HookIdle == [pc |-> "idle", attempt |-> 0, sends |-> 0, slept |-> <<>>,
             code |-> 0, cancelled |-> FALSE, result |-> "none"]

ClientInit ==
    /\ idc = [call |-> IdcIdle, log |-> <<>>]
    /\ hook = [call |-> HookIdle, calls |-> 0]

AuthInit ==
    /\ secretKeys = [k \in {"k1"} |-> KeySecret[k]]
    /\ signingKeys = [k \in {"k1"} |-> KeySecret[k]]
    /\ signer = [kid |-> "k1", secret |-> KeySecret["k1"]]
    /\ nonces = {}
    /\ wire = {}
    /\ val = [v \in Validators |-> ValIdle]
    /\ accepts = <<>>
    /\ authNow = 0
    /\ authTicks = 0

\* no request yet, no invocation in flight
NothingRequested ==
    /\ requests = [r \in ReqIds |-> NoReq]
    /\ auditLog = [r \in ReqIds |-> [t \in EventTypes |-> 0]]
    /\ hist = [r \in ReqIds |-> <<>>]
    /\ grantCommits = [r \in ReqIds |-> 0]
    /\ callbacks = [r \in ReqIds |-> [st \in Statuses |-> 0]]
    /\ assigned = [k \in Accounts \X Users |-> FALSE]
    /\ api = [p \in Procs |-> Idle]
    /\ wf = [r \in ReqIds |-> NoExecution]
    /\ rec = RecIdle
    /\ createdUnder = [r \in ReqIds |-> 0]
    /\ now = 0
    /\ ticks = 0

Init ==
    /\ AuthInit
    /\ ClientInit
    /\ configs = OnboardedConfigs
    /\ NothingRequested

ApiCreate(p) ==
    \/ \E d \in LifecycleDurations : CreateValidate(p, "ch1", "acct1", "u_r", d)
    \/ \E found \in BOOLEAN : CreateLookup(p, found)
    \/ CreatePut(p)
    \/ CreateAudit(p)

ApiApprove(p) ==
    \/ \E r \in ReqIds : ApproveRead(p, r, "u_a")
    \/ ApproveAuthorize(p)
    \/ ApproveUpdate(p)
    \/ ApproveAudit(p)
    \/ \E started \in BOOLEAN : ApproveStartWorkflow(p, started)

ApiDeny(p) ==
    \/ \E r \in ReqIds : DenyRead(p, r, "u_a")
    \/ DenyAuthorize(p)
    \/ DenyUpdate(p)
    \/ DenyAudit(p)

ApiRevoke(p) ==
    \/ \E r \in ReqIds : RevokeRead(p, r, "u_a")
    \/ \E o \in IdentityOutcomes : RevokeIdentity(p, o)
    \/ RevokeMarkError(p)
    \/ RevokeUpdate(p)
    \/ RevokeAudit(p)

Workflow(r) ==
    \/ WfValidate(r)
    \/ \E o \in IdentityOutcomes : WfGrantIdentity(r, o)
    \/ WfGrantUpdate(r)
    \/ \E delivered \in BOOLEAN : WfGrantAudit(r, delivered)
    \/ WfNotifyGranted(r)
    \/ WfWait(r)
    \/ WfRevokeRead(r)
    \/ \E o \in IdentityOutcomes : WfRevokeIdentity(r, o)
    \/ WfRevokeUpdate(r)
    \/ WfRevokeAudit(r)
    \/ WfNotifyRevoked(r)
    \/ WfGrantErrorUpdate(r)
    \/ WfGrantErrorSecondUpdate(r)
    \/ WfGrantErrorAudit(r)
    \/ WfRevokeErrorUpdate(r)
    \/ WfRevokeErrorAudit(r)

Reconciler ==
    \/ RecQuery
    \/ \E o \in IdentityOutcomes : RecRevokeIdentity(o)
    \/ RecMarkError
    \/ RecErrorAudit
    \/ RecUpdate
    \/ RecAudit
    \/ RecFinish

Next ==
    \/ \E p \in Procs : ApiCreate(p) \/ ApiApprove(p) \/ ApiDeny(p) \/ ApiRevoke(p)
                        \/ Return(p)
    \/ \E r \in ReqIds : Workflow(r)
    \/ Reconciler
    \/ Tick

Spec == Init /\ [][Next]_vars

(***************************************************************************)
(* Properties of the request lifecycle.                                    *)
(***************************************************************************)
Range(seq) == {seq[i] : i \in 1..Len(seq)}

\* the transitions of the lifecycle DAG
DagEdges ==
    {<<StatusPending, StatusApproved>>, <<StatusPending, StatusDenied>>,
     <<StatusApproved, StatusGranted>>, <<StatusApproved, StatusError>>,
     <<StatusGranted, StatusRevoked>>, <<StatusGranted, StatusExpired>>,
     <<StatusGranted, StatusError>>}

IsDagPath(h) ==
    /\ h[1] = StatusPending
    /\ \A i \in 1..(Len(h) - 1) : <<h[i], h[i + 1]>> \in DagEdges

\* C1: the sequence of status values a request takes is a prefix of a path
\* of the lifecycle DAG, starting at PENDING, and the stored status is the
\* last element of it; DENIED, REVOKED and EXPIRED have no outgoing edge,
\* so they are never left.
C1_StatusFollowsDag ==
    \A r \in ReqIds :
        Exists(r) =>
            /\ IsDagPath(hist[r])
            /\ requests[r].status = hist[r][Len(hist[r])]

\* a request went all the way to a terminal status while a competing
\* transition lost its conditional update
C1_Witness ==
    \E r \in ReqIds :
        /\ Len(hist[r]) = 4
        /\ \E p \in Procs : api[p].pc = "done" /\ api[p].resp = "conflict"

\* C2: for each request at most one conditional update APPROVED -> GRANTED
\* succeeds, whatever the retries of the Grant step do.
C2_AtMostOneGrantCommit == \A r \in ReqIds : grantCommits[r] <= 1

\* the grant has committed once and a retried Grant attempt is at its own
\* conditional update
C2_Witness ==
    \E r \in ReqIds :
        /\ grantCommits[r] = 1
        /\ InState(r, "GrantAccess", "update")
        /\ wf[r].attempt > 0

\* no invocation is between two of its steps
Quiescent ==
    /\ \A p \in Procs : api[p].pc \in {"idle", "done"}
    /\ \A r \in ReqIds : wf[r].pc = "none"
    /\ rec.pc \in {"idle", "finish"}

\* the status an audit event type records: REQUESTED is the creation as
\* PENDING, every other type carries the status name
StatusOfEvent(t) == IF t = EventRequested THEN StatusPending ELSE t

\* C3: every status change (the creation as PENDING and each transition)
\* has produced exactly one audit event of the matching type, once the
\* invocations that made the changes have finished.
C3_OneAuditPerStatusChange ==
    Quiescent =>
        \A r \in ReqIds : \A t \in EventTypes :
            auditLog[r][t] = Count(hist[r], StatusOfEvent(t))

\* C4: an audit event of type T exists for a request only if the request's
\* status has been T (REQUESTED: the request has been created).
C4_AuditOnlyAfterStatus ==
    \A r \in ReqIds : \A t \in EventTypes :
        auditLog[r][t] > 0 => StatusOfEvent(t) \in Range(hist[r])

RevokeOfFinished(p) ==
    /\ api[p].pc = "done"
    /\ api[p].op = "revoke"
    /\ api[p].seen \in {StatusRevoked, StatusExpired}

ActiveStatuses == {StatusPending, StatusApproved, StatusGranted}

\* C8: a request that reached GRANTED ends EXPIRED or REVOKED: once its
\* status is one that no transition leaves, that status is EXPIRED or
\* REVOKED.
C8_GrantedEndsExpiredOrRevoked ==
    \A r \in ReqIds :
        (Exists(r) /\ StatusGranted \in Range(hist[r])
                   /\ requests[r].status \notin ActiveStatuses)
            => requests[r].status \in {StatusExpired, StatusRevoked}

\* C11: end_time is written once, by the creation, as created_at plus the
\* requested duration, and no later step of any operation changes it.
C11_EndTimeImmutable ==
    [][\A r \in ReqIds :
        /\ Exists(r) =>
            /\ requests'[r] # NoReq
            /\ requests'[r].end_time = requests[r].end_time
        /\ (~Exists(r) /\ requests'[r] # NoReq) =>
            /\ requests'[r].created_at = now
            /\ requests'[r].end_time = now + requests'[r].dur]_vars

\* a request was granted after time had passed since its creation, and
\* has expired with the end_time its creation wrote
C11_Witness ==
    \E r \in ReqIds :
        /\ Exists(r)
        /\ requests[r].status = StatusExpired
        /\ requests[r].grant_time > requests[r].created_at
        /\ requests[r].end_time = requests[r].created_at + requests[r].dur

C16_OneExecutionPerRequest ==
    \A r \in ReqIds :
        /\ wf[r].startCalls <= 1
        /\ wf[r].state # "NotStarted" =>
            /\ wf[r].startCalls = 1
            /\ StatusApproved \in Range(hist[r])

\* two approve calls raced on a request: one lost the conditional update,
\* the other started the execution
C16_Witness ==
    \E r \in ReqIds :
        /\ wf[r].state # "NotStarted"
        /\ \E p \in Procs :
            /\ api[p].op = "approve" /\ api[p].rid = r
            /\ api[p].pc = "done" /\ api[p].resp = "conflict"

\* C20: an approve whose StartExecution call failed still returns success;
\* the request is APPROVED and its APPROVED audit event exists.
C20_StartFailureKeepsApproval ==
    \A p \in Procs :
        (api[p].op = "approve" /\ api[p].pc = "done" /\ api[p].started = "failed")
            => /\ api[p].resp = "ok"
               /\ requests[api[p].rid].status = StatusApproved
               /\ auditLog[api[p].rid][EventApproved] = 1

\* an approve has answered after its StartExecution call failed, and no
\* execution exists for the request
C20_Witness ==
    \E p \in Procs :
        /\ api[p].op = "approve" /\ api[p].pc = "done"
        /\ api[p].started = "failed"
        /\ wf[api[p].rid].state = "NotStarted"

\* what the race of a manual revoke with the scheduled revoke leaves in
\* the store and the audit log: one terminal status, and the one audit
\* event of that status, never a REVOKED and an EXPIRED event together
OneRevocationRecorded ==
    \A r \in ReqIds :
        /\ auditLog[r][EventRevoked] + auditLog[r][EventExpired] <= 1
        /\ auditLog[r][EventRevoked] = 1 => requests[r].status = StatusRevoked
        /\ auditLog[r][EventExpired] = 1 => requests[r].status = StatusExpired
        /\ (Quiescent /\ requests[r] # NoReq
                      /\ requests[r].status \in {StatusRevoked, StatusExpired})
            => auditLog[r][requests[r].status] = 1

\* the workflow's revoke finds at its conditional update that the request
\* is no longer GRANTED: the task succeeds and nothing is written
ScheduledRevokeYields ==
    \A r \in ReqIds :
        (/\ InState(r, "RevokeAccess", "update")
         /\ wf'[r] # wf[r]
         /\ requests[r].status # StatusGranted)
        => /\ wf'[r].state = "NotifyRevoked"
           /\ UNCHANGED <<requests, auditLog>>

\* a manual revoke finds at its conditional update that the request is no
\* longer GRANTED, and answers with resp; nothing is written
ManualRevokeYields(resp) ==
    \A p \in Procs :
        (/\ At(p, "revoke", "update")
         /\ api'[p] # api[p]
         /\ requests[api[p].rid].status # StatusGranted)
        => /\ api'[p].pc = "done"
           /\ api'[p].resp = resp
           /\ UNCHANGED <<requests, auditLog>>

C18_ManualRevokeErrorReported ==
    \A p \in Procs :
        (/\ api[p].op = "revoke" /\ api[p].pc = "done"
         /\ api[p].resp = "identity_error"
         /\ requests[api[p].rid].status = StatusError)
        => /\ auditLog[api[p].rid][EventError] >= 1
           /\ callbacks[api[p].rid][StatusError] >= 1

\* the statuses whose transition carries a callback
NotifiedStatuses == {StatusGranted, StatusRevoked, StatusExpired, StatusError}

\* every operation that made a transition has finished handling it: no
\* API or reconciler invocation is between two steps and every execution
\* is waiting or has ended
TransitionsHandled ==
    /\ Quiescent
    /\ \A r \in ReqIds :
        wf[r].state \in {"NotStarted", "WaitForDuration", "Succeeded", "Failed"}

\* C19: a callback has been sent for every transition to GRANTED, REVOKED,
\* EXPIRED or ERROR once the operation that made it has finished, and none
\* is ever sent for DENIED.
C19_CallbackPerTransition ==
    /\ \A r \in ReqIds : callbacks[r][StatusDenied] = 0
    /\ TransitionsHandled =>
        \A r \in ReqIds : \A st \in NotifiedStatuses :
            st \in Range(hist[r]) => callbacks[r][st] >= 1

\* the requests a reconciler run works on, as its query returned them
Caught == Range(rec.queue)

\* the approval's hand-off failed: StartExecution was called for the
\* request and no execution exists
HandoffFailed(r) ==
    /\ Exists(r)
    /\ requests[r].status = StatusApproved
    /\ wf[r].startCalls >= 1
    /\ wf[r].state = "NotStarted"

\* C21: the reconciler catches an APPROVED request whose workflow could not
\* be started: a reconciler run whose query is made while the request is
\* in that state, with its end_time passed, works on the request.
C21_ReconcilerCatchesFailedHandoff ==
    [][(rec.pc = "idle" /\ rec' # rec) =>
        \A r \in ReqIds :
            (HandoffFailed(r) /\ requests[r].end_time <= now)
                => r \in Caught']_vars

\* the workflow's revoke failed and HandleRevokeError has run: the request
\* was GRANTED, is in ERROR, and its execution has ended
RevokeErrorHandled(r) ==
    /\ Exists(r)
    /\ requests[r].status = StatusError
    /\ StatusGranted \in Range(hist[r])
    /\ wf[r].state = "Succeeded"
    /\ wf[r].endedIn = "HandleRevokeError"

\* C22: the reconciler retries the revoke after the workflow's revoke has
\* failed: a reconciler run whose query is made after HandleRevokeError has
\* run, with the request's end_time passed, works on the request.
C22_ReconcilerRetriesFailedRevoke ==
    [][(rec.pc = "idle" /\ rec' # rec) =>
        \A r \in ReqIds :
            (RevokeErrorHandled(r) /\ requests[r].end_time <= now)
                => r \in Caught']_vars

\* the grant step created the assignment and failed afterwards, and
\* HandleGrantError has run: the request is in ERROR, its execution has
\* ended, and the assignment of its (account, user) exists
GrantErrorLeftAccess(r) ==
    /\ Exists(r)
    /\ requests[r].status = StatusError
    /\ wf[r].state = "Succeeded"
    /\ wf[r].endedIn = "HandleGrantError"
    /\ assigned[<<requests[r].acct, requests[r].requester>>]

\* C37: no standing access after a grant failure: when HandleGrantError has
\* moved a request to ERROR and the assignment exists, the system comes
\* back to revoke it: a reconciler run whose query is made then, with the
\* request's end_time passed, works on the request.
C37_NoStandingAccessAfterGrantError ==
    [][(rec.pc = "idle" /\ rec' # rec) =>
        \A r \in ReqIds :
            (GrantErrorLeftAccess(r) /\ requests[r].end_time <= now)
                => r \in Caught']_vars

\* C38: a granted request is not moved to EXPIRED, by the workflow or by
\* the reconciler, before grant_time + requested_duration_minutes, however
\* long it waited between its creation and its grant.
C38_FullDurationAfterGrant ==
    [][\A r \in ReqIds :
        (/\ Exists(r)
         /\ requests[r].status = StatusGranted
         /\ requests'[r].status = StatusExpired)
            => now >= requests[r].grant_time + requests[r].dur]_vars

TransitionOps == {"approve", "deny", "revoke"}

\* the invocation in slot p ends in this step with a refusal
Refuses(p, resps) ==
    /\ api[p].pc # "done"
    /\ api'[p].pc = "done"
    /\ api'[p].op \in TransitionOps
    /\ api'[p].resp \in resps

\* C23: on the approve, deny and revoke endpoints a stale status (the status
\* check or the conditional update fails) is answered 409, an authorization
\* failure 403 and a missing request 404, and the request is not changed.
C23_RefusalStatusCodes ==
    [][\A p \in Procs :
        /\ Refuses(p, {"wrong_status", "conflict", "not_authorized",
                       "self_approval", "not_found"})
                => requests' = requests
        /\ Refuses(p, {"wrong_status", "conflict"})
                => TransitionStatusCode(api'[p].resp) = 409
        /\ Refuses(p, {"not_authorized", "self_approval"})
                => TransitionStatusCode(api'[p].resp) = 403
        /\ Refuses(p, {"not_found"})
                => TransitionStatusCode(api'[p].resp) = 404]_vars

\* the reconciler takes a step from position pc
RecStep(pc) == rec.pc = pc /\ rec' # rec

\* the request of the reconciler's turn is done: the loop moves on
RecHandled(errors) ==
    /\ rec'.queue = Tail(rec.queue)
    /\ rec'.errCount = rec.errCount + errors

\* C26: a reconciler run works on exactly the requests that are GRANTED
\* with end_time <= now.  For each it calls the identity revoke; on success
\* it updates GRANTED -> EXPIRED with expired_at and emits one EXPIRED audit
\* event and one EXPIRED callback; on identity failure it updates
\* GRANTED -> ERROR with error_details and emits an ERROR audit event; when
\* the update to EXPIRED finds the status changed it emits no audit event
\* and no callback and the request counts as handled.
C26_ReconcilerRevokesExpired ==
    [][LET r == Head(rec.queue)
       IN /\ RecStep("idle") =>
                Range(rec'.queue) =
                    {q \in ReqIds : /\ Exists(q)
                                    /\ requests[q].status = StatusGranted
                                    /\ requests[q].end_time <= now}
          /\ RecStep("identity") =>
                \/ rec'.pc = "update" /\ assigned' = Unassigned(r)
                \/ rec'.pc = "error" /\ assigned' = assigned
          /\ RecStep("update") =>
                IF requests[r].status = StatusGranted
                THEN /\ requests'[r].status = StatusExpired
                     /\ requests'[r].expired_at = now
                     /\ rec'.pc = "audit"
                ELSE /\ requests' = requests
                     /\ auditLog' = auditLog
                     /\ callbacks' = callbacks
                     /\ RecHandled(0)
          /\ RecStep("audit") =>
                /\ auditLog' = AuditLogged(r, EventExpired)
                /\ callbacks' = Notified(r, StatusExpired)
                /\ RecHandled(0)
          /\ RecStep("error") =>
                /\ IF requests[r].status = StatusGranted
                   THEN /\ requests'[r].status = StatusError
                        /\ requests'[r].error_details = "reconciler revoke failed"
                   ELSE requests' = requests
                /\ rec'.pc = "erroraudit"
          /\ RecStep("erroraudit") =>
                /\ auditLog' = AuditLogged(r, EventError)
                /\ RecHandled(1)]_vars

\* the reconciler has expired a grant whose workflow is still waiting: the
\* request is EXPIRED as of now, with one EXPIRED audit event and callback
C26_Witness ==
    \E r \in ReqIds :
        /\ Exists(r)
        /\ requests[r].status = StatusExpired
        /\ requests[r].expired_at = now
        /\ wf[r].state = "WaitForDuration"
        /\ auditLog[r][EventExpired] = 1
        /\ callbacks[r][StatusExpired] = 1
        /\ ~assigned[<<requests[r].acct, requests[r].requester>>]
        /\ rec.pc = "finish"
        /\ rec.errCount = 0

\* C27: a reconciler run in which the revoke of a request failed has still
\* gone through every request of its query when it ends, and it ends as a
\* logged warning: the invocation does not fail.
C27_RunWithErrorsNotFailed ==
    rec.pc = "finish" => /\ rec.queue = <<>>
                         /\ RecResult = "ok"

\* the execution of r takes a step from position pc of the Revoke task
RevokeTaskStep(r, pc) ==
    /\ InState(r, "RevokeAccess", pc)
    /\ <<wf'[r].state, wf'[r].pc, wf'[r].attempt>>
            # <<wf[r].state, wf[r].pc, wf[r].attempt>>

\* C30: the Revoke step of the workflow that finds the request REVOKED or
\* EXPIRED succeeds at once: no identity call, no change of the request, no
\* audit event.  When its update GRANTED -> EXPIRED fails on the condition
\* after the identity revoke succeeded, it succeeds as well and emits no
\* EXPIRED audit event.
C30_RevokeStepYields ==
    [][\A r \in ReqIds :
        /\ (RevokeTaskStep(r, "none")
             /\ requests[r].status \in {StatusRevoked, StatusExpired})
                => /\ wf'[r].state = "NotifyRevoked"
                   /\ assigned' = assigned
                   /\ requests' = requests
                   /\ auditLog' = auditLog
        /\ (RevokeTaskStep(r, "update") /\ requests[r].status # StatusGranted)
                => /\ wf'[r].state = "NotifyRevoked"
                   /\ requests' = requests
                   /\ auditLog' = auditLog]_vars

\* the Revoke step found the request revoked by hand and went on to
\* NotifyRevoked: the request is REVOKED and no EXPIRED event was written
C30_Witness ==
    \E r \in ReqIds :
        /\ Exists(r)
        /\ requests[r].status = StatusRevoked
        /\ wf[r].state = "NotifyRevoked"
        /\ auditLog[r][EventExpired] = 0
        /\ auditLog[r][EventRevoked] = 1

(***************************************************************************)
(* Deciding a request while its binding changes: approve and deny by any   *)
(* user, POST /config/approvers (HandleSetApprovers) and the operator's    *)
(* edits of the jit_config table.                                          *)
(***************************************************************************)
\* the approver lists a caller submits
ApproverIdSets == SUBSET Users

\* HandleSetApprovers: input validation and GetConfigsByChannel; the
\* approver list is set on each binding read.
SetApproversRead(p, ch, ids) ==
    /\ Free(p)
    /\ LET bound == {acct \in Accounts : configs[<<ch, acct>>] # NoCfg}
           slot == [Idle EXCEPT !.op = "approvers", !.ch = ch]
       IN api' = [api EXCEPT ![p] =
            IF ids = {} THEN Done(slot, "invalid_input")
            ELSE IF bound = {} THEN Done(slot, "no_accounts")
            ELSE LET acct == CHOOSE a \in bound : TRUE
                 IN [slot EXCEPT !.pc = "put", !.acct = acct,
                        !.cfg = [configs[<<ch, acct>>] EXCEPT !.approvers = ids]]]
    /\ UNCHANGED apiOnly
    /\ UNCHANGED <<authVars, clientVars>>

\* HandleSetApprovers: PutConfig of the binding as read, with the new list.
SetApproversPut(p) ==
    /\ At(p, "approvers", "put")
    /\ configs' = [configs EXCEPT ![<<api[p].ch, api[p].acct>>] = api[p].cfg]
    /\ api' = [api EXCEPT ![p] = Done(@, "ok")]
    /\ UNCHANGED <<requests, auditLog, hist, grantCommits, callbacks, assigned,
                   wf, rec, createdUnder, now, ticks>>
    /\ UNCHANGED <<authVars, clientVars>>

\* An operator unbinds an account: the config entry is deleted from the
\* jit_config table.
OperatorDeleteBinding(ch, acct) ==
    /\ configs[<<ch, acct>>] # NoCfg
    /\ configs' = [configs EXCEPT ![<<ch, acct>>] = NoCfg]
    /\ UNCHANGED <<requests, auditLog, hist, grantCommits, callbacks, assigned,
                   api, wf, rec, createdUnder, now, ticks>>
    /\ UNCHANGED <<authVars, clientVars>>

\* An operator sets allow_self_approval of a binding in the table.
OperatorSetAllowSelfApproval(ch, acct, allow) ==
    /\ configs[<<ch, acct>>] # NoCfg
    /\ configs[<<ch, acct>>].allowSelfApproval # allow
    /\ configs' = [configs EXCEPT ![<<ch, acct>>].allowSelfApproval = allow]
    /\ UNCHANGED <<requests, auditLog, hist, grantCommits, callbacks, assigned,
                   api, wf, rec, createdUnder, now, ticks>>
    /\ UNCHANGED <<authVars, clientVars>>

ApiSetApprovers(p) ==
    \/ \E ch \in Channels, ids \in ApproverIdSets : SetApproversRead(p, ch, ids)
    \/ SetApproversPut(p)

DecideApprove(p) ==
    \/ \E r \in ReqIds, actor \in Users : ApproveRead(p, r, actor)
    \/ ApproveAuthorize(p)
    \/ ApproveUpdate(p)
    \/ ApproveAudit(p)
    \/ \E started \in BOOLEAN : ApproveStartWorkflow(p, started)

DecideDeny(p) ==
    \/ \E r \in ReqIds, actor \in Users : DenyRead(p, r, actor)
    \/ DenyAuthorize(p)
    \/ DenyUpdate(p)
    \/ DenyAudit(p)

NextDecide ==
    \/ \E p \in Procs : ApiCreate(p) \/ DecideApprove(p) \/ DecideDeny(p)
                        \/ ApiSetApprovers(p) \/ Return(p)
    \/ \E ch \in Channels, acct \in Accounts : OperatorDeleteBinding(ch, acct)
    \/ \E ch \in Channels, acct \in Accounts, allow \in BOOLEAN :
            OperatorSetAllowSelfApproval(ch, acct, allow)

SpecDecide == Init /\ [][NextDecide]_vars

\* the binding of the request an invocation works on
BindingOf(p) == GetConfig(api[p].ch, api[p].acct)

\* C12: an approve whose actor is the requester, read against a binding
\* with allow_self_approval = false, is rejected at the authorization
\* check (as self-approval when the actor is an approver), and the
\* rejection changes no request, writes no audit event and starts no
\* workflow.
C12_SelfApprovalBlocked ==
    [][\A p \in Procs :
        (/\ At(p, "approve", "config")
         /\ api'[p] # api[p]
         /\ BindingOf(p) # NoCfg
         /\ ~BindingOf(p).allowSelfApproval
         /\ api[p].actor = requests[api[p].rid].requester)
        => /\ api'[p].pc = "done"
           /\ api'[p].resp \in {"self_approval", "not_authorized"}
           /\ IsApprover(BindingOf(p), api[p].actor)
                => api'[p].resp = "self_approval"
           /\ UNCHANGED <<requests, auditLog, wf>>]_vars

\* the requester, who is one of the approvers, has been refused the
\* approval of the own request, which is still PENDING
C12_Witness ==
    \E p \in Procs :
        /\ api[p].op = "approve" /\ api[p].pc = "done"
        /\ api[p].resp = "self_approval"
        /\ BindingOf(p) # NoCfg
        /\ api[p].actor \in BindingOf(p).approvers
        /\ api[p].actor = requests[api[p].rid].requester
        /\ requests[api[p].rid].status = StatusPending
        /\ auditLog[api[p].rid][EventApproved] = 0

\* C13: whenever a request moves PENDING -> APPROVED or PENDING -> DENIED,
\* the binding exists and the recorded approver is in its approver list as
\* stored at that moment.
C13_ApproverInCurrentBinding ==
    [][\A r \in ReqIds :
        (/\ Exists(r)
         /\ requests[r].status = StatusPending
         /\ requests'[r].status \in {StatusApproved, StatusDenied})
        => /\ GetConfig(requests[r].ch, requests[r].acct) # NoCfg
           /\ requests'[r].approver
                \in GetConfig(requests[r].ch, requests[r].acct).approvers]_vars

\* C14: an approve or deny that finds the binding of its request deleted
\* fails with the not-authorized error.
C14_DeletedBindingNotAuthorized ==
    [][\A p \in Procs :
        (/\ api[p].op \in {"approve", "deny"}
         /\ api[p].pc = "config"
         /\ api'[p] # api[p]
         /\ BindingOf(p) = NoCfg)
        => /\ api'[p].pc = "done"
           /\ api'[p].resp = "not_authorized"]_vars

\* the status an approve or a deny writes
DecisionOf(op) == IF op = "approve" THEN StatusApproved ELSE StatusDenied

\* the decisions committed on request r
Decisions(r) ==
    Cardinality({i \in 1..Len(hist[r]) : hist[r][i] \in {StatusApproved, StatusDenied}})

\* C25: of the transitions racing on a PENDING request (approve against
\* deny, approve against approve) exactly one conditional update succeeds
\* and the stored approver is its actor; the other gets the conflict error,
\* leaves the request as it is, writes no audit event and starts no
\* workflow.
C25_OneDecisionWins ==
    [][/\ \A r \in ReqIds :
            /\ Decisions(r) <= 1
            /\ auditLog[r][EventApproved] + auditLog[r][EventDenied] <= 1
            /\ wf[r].startCalls <= 1
       /\ \A p \in Procs :
            (/\ api[p].op \in {"approve", "deny"}
             /\ api[p].pc = "update"
             /\ api'[p] # api[p])
            => LET r == api[p].rid
               IN IF requests[r].status = StatusPending
                  THEN /\ requests'[r].status = DecisionOf(api[p].op)
                       /\ requests'[r].approver = api[p].actor
                       /\ api'[p].pc = "audit"
                  ELSE /\ api'[p].pc = "done"
                       /\ api'[p].resp = "conflict"
                       /\ requests' = requests
                       /\ auditLog' = auditLog
                       /\ wf' = wf]_vars

\* two approvers decided the same request at the same time: one has lost
\* with the conflict error, the other's decision and name are stored
C25_Witness ==
    \E p \in Procs, q \in Procs :
        /\ api[p].pc = "done" /\ api[p].resp = "conflict"
        /\ api[q].op \in {"approve", "deny"}
        /\ api[q].pc \in {"audit", "start", "done"}
        /\ api[q].rid = api[p].rid
        /\ api[q].actor # api[p].actor
        /\ requests[api[q].rid].status = DecisionOf(api[q].op)
        /\ requests[api[q].rid].approver = api[q].actor
        /\ ~(api[q].pc = "done" /\ api[q].resp # "ok")

(***************************************************************************)
(* The workflow on its own: executions started by an approval or from      *)
(* outside it, and the NotifyGranted task with its failures.               *)
(***************************************************************************)
\* An execution is started for request id r by something other than the
\* approval of r (the state machine takes any input): the validate step may
\* then find the request absent or in a status that is not APPROVED.
StartExecutionOf(r) ==
    /\ wf[r].state = "NotStarted"
    /\ wf[r].startCalls = 0
    /\ wf' = [wf EXCEPT ![r] = [@ EXCEPT !.state = "ValidateRequest"]]
    /\ UNCHANGED <<configs, requests, auditLog, hist, grantCommits, callbacks,
                   assigned, api, rec, createdUnder, now, ticks>>
    /\ UNCHANGED <<authVars, clientVars>>

NextWorkflow ==
    \/ \E p \in Procs : ApiCreate(p) \/ ApiApprove(p) \/ Return(p)
    \/ \E r \in ReqIds : StartExecutionOf(r)
    \/ \E r \in ReqIds : Workflow(r)
    \/ \E r \in ReqIds : \E o \in NotifyOutcomes \ {"notified"} :
            WfNotifyGrantedWith(r, o)
    \/ Tick

SpecWorkflow == Init /\ [][NextWorkflow]_vars

\* the execution of r leaves state `from` in this step
Leaves(r, from) == wf[r].state = from /\ wf'[r].state # from

\* C28: the workflow comes to the Grant step only from a ValidateRequest
\* that found the request APPROVED, and the identity grant is issued only
\* in the Grant step; a ValidateRequest that finds the request absent or not
\* APPROVED fails and the execution ends there: no identity call, no status
\* change, no audit event.
C28_GrantOnlyAfterValidation ==
    [][\A r \in ReqIds :
        /\ (wf[r].state # "GrantAccess" /\ wf'[r].state = "GrantAccess")
                => /\ wf[r].state = "ValidateRequest"
                   /\ Exists(r)
                   /\ requests[r].status = StatusApproved
        /\ (Leaves(r, "ValidateRequest")
             /\ ~(Exists(r) /\ requests[r].status = StatusApproved))
                => /\ wf'[r].state = "Failed"
                   /\ requests' = requests
                   /\ assigned' = assigned
                   /\ auditLog' = auditLog
                   /\ callbacks' = callbacks
        /\ wf[r].state = "Failed" => wf'[r].state = "Failed"
        /\ (\E k \in DOMAIN assigned : ~assigned[k] /\ assigned'[k])
                => \E q \in ReqIds : wf[q].state = "GrantAccess"]_vars

\* an execution started for a request that was still PENDING failed at
\* ValidateRequest: nothing was granted, the request is as it was
C28_Witness ==
    \E r \in ReqIds :
        /\ Exists(r)
        /\ requests[r].status = StatusPending
        /\ wf[r].state = "Failed"
        /\ wf[r].endedIn = "ValidateRequest"
        /\ ~assigned[<<requests[r].acct, requests[r].requester>>]
        /\ auditLog[r][EventGranted] = 0

\* C29: when the NotifyGranted step fails (the callback is not delivered,
\* or the step itself fails) the execution is not aborted and the request
\* is not changed: the execution goes on to WaitForDuration, and from there
\* to the Revoke step.
C29_NotifyFailureDoesNotAbort ==
    [][\A r \in ReqIds :
        /\ Leaves(r, "NotifyGranted")
                => /\ wf'[r].state = "WaitForDuration"
                   /\ wf'[r].waitUntil = now + requests[r].dur
                   /\ requests' = requests
                   /\ auditLog' = auditLog
                   /\ assigned' = assigned
        /\ Leaves(r, "WaitForDuration") => wf'[r].state = "RevokeAccess"]_vars

\* the NotifyGranted step failed, no GRANTED callback was sent, and the
\* execution has waited and is at the Revoke step of the granted request
C29_Witness ==
    \E r \in ReqIds :
        /\ Exists(r)
        /\ requests[r].status = StatusGranted
        /\ callbacks[r][StatusGranted] = 0
        /\ wf[r].state = "RevokeAccess"

\* C31: the callback of the NotifyRevoked step carries EXPIRED or REVOKED,
\* the status the store shows for the request at that moment, by whichever
\* path the execution came to NotifyRevoked.
C31_NotifyRevokedCarriesFinalStatus ==
    [][\A r \in ReqIds :
        Leaves(r, "NotifyRevoked")
            => /\ requests[r].status \in {StatusExpired, StatusRevoked}
               /\ callbacks' = Notified(r, requests[r].status)]_vars

NotRevocableStatuses == {StatusPending, StatusApproved, StatusDenied, StatusError}

\* C32: a manual revoke of a request that is PENDING, APPROVED, DENIED or
\* ERROR fails: it ends at once with the status error, makes no identity
\* call, does not change the request, and emits no audit event and no
\* callback.
C32_RevokeOfUngrantedFails ==
    [][\A p \in Procs :
        (/\ IsIdle(p)
         /\ api'[p].op = "revoke"
         /\ Exists(api'[p].rid)
         /\ requests[api'[p].rid].status \in NotRevocableStatuses)
        => /\ api'[p].pc = "done"
           /\ api'[p].resp = "wrong_status"
           /\ requests' = requests
           /\ assigned' = assigned
           /\ auditLog' = auditLog
           /\ callbacks' = callbacks]_vars

\* a manual revoke of a request in ERROR, whose assignment is still in
\* place, has failed
C32_Witness ==
    \E p \in Procs :
        /\ api[p].op = "revoke"
        /\ api[p].pc = "done"
        /\ api[p].resp = "wrong_status"
        /\ api[p].seen = StatusError
        /\ requests[api[p].rid].status = StatusError
        /\ assigned[<<requests[api[p].rid].acct, requests[api[p].rid].requester>>]
        /\ auditLog[api[p].rid][EventRevoked] = 0

(***************************************************************************)
(* Requests for one (account, user) granted at the same time: nothing in   *)
(* HandleCreateRequest looks for another request of the pair, so every     *)
(* request id may hold a granted request of the same requester and         *)
(* account, each with its own duration.                                    *)
(***************************************************************************)
OverlapDuration(r) == r * MinutesPerHour

InitOverlap ==
    /\ AuthInit
    /\ ClientInit
    /\ configs = OnboardedConfigs
    /\ requests = [r \in ReqIds |->
            [status |-> StatusGranted, requester |-> "u_r", ch |-> "ch1",
             acct |-> "acct1", dur |-> OverlapDuration(r), created_at |-> 0,
             end_time |-> OverlapDuration(r), grant_time |-> 0,
             approver |-> "u_a", expired_at |-> -1, error_details |-> ""]]
    /\ auditLog = [r \in ReqIds |-> [t \in EventTypes |->
            IF t \in {EventRequested, EventApproved, EventGranted} THEN 1 ELSE 0]]
    /\ hist = [r \in ReqIds |-> <<StatusPending, StatusApproved, StatusGranted>>]
    /\ grantCommits = [r \in ReqIds |-> 1]
    /\ callbacks = [r \in ReqIds |-> [st \in Statuses |->
            IF st = StatusGranted THEN 1 ELSE 0]]
    /\ assigned = [k \in Accounts \X Users |-> k = <<"acct1", "u_r">>]
    /\ api = [p \in Procs |-> Idle]
    /\ wf = [r \in ReqIds |->
            [NoExecution EXCEPT !.state = "WaitForDuration", !.startCalls = 1,
                                !.waitUntil = OverlapDuration(r)]]
    /\ rec = RecIdle
    /\ createdUnder = [r \in ReqIds |-> DefaultMaxRequestHours]
    /\ now = 0
    /\ ticks = 0

\* The granted requests end: by the workflow's revoke step, by the
\* reconciler, or by a manual revoke.
NextOverlap ==
    \/ \E p \in Procs : ApiRevoke(p) \/ Return(p)
    \/ \E r \in ReqIds :
        \/ WfWait(r)
        \/ WfRevokeRead(r)
        \/ \E o \in IdentityOutcomes : WfRevokeIdentity(r, o)
        \/ WfRevokeUpdate(r)
        \/ WfRevokeAudit(r)
        \/ WfNotifyRevoked(r)
        \/ WfRevokeErrorUpdate(r)
        \/ WfRevokeErrorAudit(r)
    \/ Reconciler
    \/ Tick

SpecOverlap == InitOverlap /\ [][NextOverlap]_vars

\* the request is GRANTED and its window, grant_time + duration, is not over
InWindow(r) ==
    /\ Exists(r)
    /\ requests[r].status = StatusGranted
    /\ now < requests[r].grant_time + requests[r].dur

\* an invocation of the manual revoke of request r takes this step
RevokedByHand(r) ==
    \E p \in Procs : api[p].op = "revoke" /\ api[p].rid = r /\ api'[p] # api[p]

\* C39: with two requests of one (account, user) granted with overlapping
\* windows, the expiry or the revocation of one does not take the access of
\* the other: while a request is GRANTED and in its window, the assignment
\* of its (account, user) is removed only by a revoke of that request.
C39_OverlappingGrantsIndependent ==
    [][\A r \in ReqIds :
        LET pair == <<requests[r].acct, requests[r].requester>>
        IN (InWindow(r) /\ assigned[pair] /\ ~assigned'[pair])
                => RevokedByHand(r)]_vars

(***************************************************************************)
(* Request authentication (internal/auth), the nonce store and the key     *)
(* rotation procedure (docs/runbooks/02-key-rotation.md).                  *)
(***************************************************************************)
\* This mutation keeps a nonce only as long as the skew window is wide.
NonceTTLOneWindow == MaxTimestampSkew

\* ttl = ceil(maxTimestampSkew.Seconds() * 2)
NonceTTL == MaxTimestampSkew * 2

\* buildSigningMessage: timestamp, nonce, METHOD, path and body hash; the
\* key id header is not part of it.  Method, path and body are those of the
\* one request the model sends.
buildSigningMessage(timestamp, nonce) == <<timestamp, nonce, "POST", "/requests", "body">>

\* computeHMAC: a keyed digest, equal only for equal secret and message.
computeHMAC(secret, message) == <<secret, message>>

\* SignPayload: the headers of a request signed now.
SignPayload(keyID, secret, nonce) ==
    [kid |-> keyID, ts |-> authNow, nonce |-> nonce,
     sig |-> computeHMAC(secret, buildSigningMessage(authNow, nonce))]

\* This mutation validates against a single configured key.
SignatureMatchesOneKey(keys, keyID, timestamp, nonce, signature) ==
    LET k == CHOOSE k \in DOMAIN keys : TRUE
    IN computeHMAC(keys[k], buildSigningMessage(timestamp, nonce)) = signature

\* The two loops of ValidateRequest: the keys whose id is the presented key
\* id, then every key.
SignatureMatches(keys, keyID, timestamp, nonce, signature) ==
    \/ \E k \in DOMAIN keys :
        /\ k = keyID
        /\ computeHMAC(keys[k], buildSigningMessage(timestamp, nonce)) = signature
    \/ \E k \in DOMAIN keys :
        computeHMAC(keys[k], buildSigningMessage(timestamp, nonce)) = signature

\* This mutation compares the signed age of the timestamp, not its distance.
OutsideSkewPastOnly(ts) == authNow - ts > MaxTimestampSkew

\* "skew > maxTimestampSkew", skew the absolute difference to now
OutsideSkew(ts) ==
    (IF authNow - ts < 0 THEN ts - authNow ELSE authNow - ts) > MaxTimestampSkew

\* CheckNonce: an item with this key exists
CheckNonce(keyID, nonce) == \E n \in nonces : n.key_id = keyID /\ n.nonce = nonce

\* This mutation stores the nonce with an unconditional put.
NonceAbsentUnchecked(keyID, nonce) == TRUE

\* StoreNonce's ConditionExpression: no item with this key exists
NonceAbsent(keyID, nonce) == ~\E n \in nonces : n.key_id = keyID /\ n.nonce = nonce

Rng(f) == {f[k] : k \in DOMAIN f}

\* The plugin sends a request signed with its current key.
Send(nonce) ==
    /\ Cardinality(wire) < MaxSends
    /\ wire' = wire \cup {SignPayload(signer.kid, signer.secret, nonce)}
    /\ UNCHANGED <<secretKeys, signingKeys, signer, nonces, val, accepts,
                   authNow, authTicks>>
    /\ UNCHANGED <<lifecycleVars, clientVars>>

\* A request from a sender that does not hold a loaded secret: a signature
\* made with another secret, or a header left out.
ForgedMessages ==
    LET signed == SignPayload("k1", "sx", "n1")
    IN {signed, [signed EXCEPT !.sig = <<>>], [signed EXCEPT !.nonce = ""]}

Forge(m) ==
    /\ Cardinality(wire) < MaxSends
    /\ m \in ForgedMessages
    /\ wire' = wire \cup {m}
    /\ UNCHANGED <<secretKeys, signingKeys, signer, nonces, val, accepts,
                   authNow, authTicks>>
    /\ UNCHANGED <<lifecycleVars, clientVars>>

\* 'keyID == "" || timestamp == "" || nonce == "" || signature == ""'; the
\* requests of the model all carry a timestamp
MissingHeaders(m) == m.kid = "" \/ m.nonce = "" \/ m.sig = <<>>

\* ValidateRequest up to the signature check: the headers, the timestamp
\* skew, CheckNonce and the signature.  The request presented is one that
\* was sent, first delivery or replay.
ValidateCheck(v, m) ==
    /\ val[v].pc = "idle"
    /\ \A q \in Validators : q < v => val[q].pc # "idle"
    /\ LET slot == [ValIdle EXCEPT !.msg = m]
           reject(why) == [slot EXCEPT !.pc = "done", !.resp = why]
       IN val' = [val EXCEPT ![v] =
            IF MissingHeaders(m) THEN reject("missing_headers")
            ELSE IF OutsideSkew(m.ts) THEN reject("timestamp_skew")
            ELSE IF CheckNonce(m.kid, m.nonce) THEN reject("nonce_used")
            ELSE IF ~SignatureMatches(signingKeys, m.kid, m.ts, m.nonce, m.sig)
                 THEN reject("invalid_signature")
            ELSE [slot EXCEPT !.pc = "store", !.since = authNow]]
    /\ UNCHANGED <<secretKeys, signingKeys, signer, nonces, wire, accepts,
                   authNow, authTicks>>
    /\ UNCHANGED <<lifecycleVars, clientVars>>

\* ValidateRequest's last step, StoreNonce: a conditional put with
\* expires_at = now + ttl.  On success the router dispatches the request to
\* its handler.
ValidateStore(v) ==
    /\ val[v].pc = "store"
    /\ LET m == val[v].msg
       IN IF NonceAbsent(m.kid, m.nonce)
          THEN /\ nonces' = nonces \cup
                    {[key_id |-> m.kid, nonce |-> m.nonce,
                      expires_at |-> authNow + NonceTTL]}
               /\ accepts' = Append(accepts, [msg |-> m, at |-> authNow])
               /\ val' = [val EXCEPT ![v] =
                    [@ EXCEPT !.pc = "done", !.since = 0, !.resp = "ok"]]
          ELSE /\ val' = [val EXCEPT ![v] =
                    [@ EXCEPT !.pc = "done", !.since = 0, !.resp = "store_failed"]]
               /\ UNCHANGED <<nonces, accepts>>
    /\ UNCHANGED <<secretKeys, signingKeys, signer, wire, authNow, authTicks>>
    /\ UNCHANGED <<lifecycleVars, clientVars>>

\* The response is returned (401 unless the validation succeeded).
ValidateReturn(v) ==
    /\ val[v].pc = "done"
    /\ val' = [val EXCEPT ![v] = ValIdle]
    /\ UNCHANGED <<secretKeys, signingKeys, signer, nonces, wire, accepts,
                   authNow, authTicks>>
    /\ UNCHANGED <<lifecycleVars, clientVars>>

\* The table's TTL on expires_at removes an item once its time has passed.
ExpireNonce(n) ==
    /\ n \in nonces
    /\ n.expires_at < authNow
    /\ nonces' = nonces \ {n}
    /\ UNCHANGED <<secretKeys, signingKeys, signer, wire, val, accepts,
                   authNow, authTicks>>
    /\ UNCHANGED <<lifecycleVars, clientVars>>

\* Runbook step 2: the new key is added to the secret.
AddNewKey ==
    /\ DOMAIN secretKeys = {"k1"}
    /\ signer.kid = "k1"
    /\ secretKeys' = [k \in {"k1", "k2"} |-> KeySecret[k]]
    /\ UNCHANGED <<signingKeys, signer, nonces, wire, val, accepts, authNow,
                   authTicks>>
    /\ UNCHANGED <<lifecycleVars, clientVars>>

\* Runbook steps 3 and 7: the Lambda is restarted and FetchSigningKeys loads
\* the secret's current content.
RestartLambda ==
    /\ signingKeys # secretKeys
    /\ signingKeys' = secretKeys
    /\ UNCHANGED <<secretKeys, signer, nonces, wire, val, accepts, authNow,
                   authTicks>>
    /\ UNCHANGED <<lifecycleVars, clientVars>>

\* Runbook step 4, after the logs show both keys loaded: the plugin is
\* configured with the new key id and secret.
RollSigner ==
    /\ signer.kid = "k1"
    /\ "k2" \in DOMAIN signingKeys
    /\ signer' = [kid |-> "k2", secret |-> KeySecret["k2"]]
    /\ UNCHANGED <<secretKeys, signingKeys, nonces, wire, val, accepts, authNow,
                   authTicks>>
    /\ UNCHANGED <<lifecycleVars, clientVars>>

\* Runbook step 7, after the plugin signs with the new key: the old key is
\* removed from the secret.
RemoveOldKey ==
    /\ signer.kid = "k2"
    /\ "k1" \in DOMAIN secretKeys
    /\ secretKeys' = [k \in {"k2"} |-> KeySecret[k]]
    /\ UNCHANGED <<signingKeys, signer, nonces, wire, val, accepts, authNow,
                   authTicks>>
    /\ UNCHANGED <<lifecycleVars, clientVars>>

AuthTickSeconds == {1, MaxTimestampSkew}

\* Time passes; an invocation of the API Lambda does not outlive its
\* timeout, so a validation in flight bounds the advance.
AuthTick(d) ==
    /\ authTicks < MaxAuthTicks
    /\ \A v \in Validators :
        val[v].pc = "store" => (authNow + d) - val[v].since <= ApiLambdaTimeout
    /\ authNow' = authNow + d
    /\ authTicks' = authTicks + 1
    /\ UNCHANGED <<secretKeys, signingKeys, signer, nonces, wire, val, accepts>>
    /\ UNCHANGED <<lifecycleVars, clientVars>>

Validate ==
    \/ \E n \in NonceValues : Send(n)
    \/ \E v \in Validators : \E m \in wire : ValidateCheck(v, m)
    \/ \E v \in Validators : ValidateStore(v) \/ ValidateReturn(v)

\* Signed requests validated over time against the nonce table, the loaded
\* keys fixed.
NextAuth ==
    \/ Validate
    \/ \E n \in nonces : ExpireNonce(n)
    \/ \E d \in AuthTickSeconds : AuthTick(d)

SpecAuth == Init /\ [][NextAuth]_vars

\* Signed requests validated while the signing key is rotated.
NextRotation ==
    \/ Validate
    \/ AddNewKey
    \/ RestartLambda
    \/ RollSigner
    \/ RemoveOldKey

SpecRotation == Init /\ [][NextRotation]_vars

\* The offsets of the plugin's clock from the API's, seconds: on and just
\* beyond the allowed skew, behind and ahead.
ClockOffsets == {0 - MaxTimestampSkew - 1, 0 - MaxTimestampSkew,
                 MaxTimestampSkew, MaxTimestampSkew + 1}

\* SignPayload on a plugin whose clock is off by the offset: the timestamp
\* header and the signed message carry the plugin's time.
SendSkewed(nonce, offset) ==
    /\ Cardinality(wire) < MaxSends
    /\ LET ts == authNow + offset
       IN wire' = wire \cup
            {[kid |-> signer.kid, ts |-> ts, nonce |-> nonce,
              sig |-> computeHMAC(signer.secret, buildSigningMessage(ts, nonce))]}
    /\ UNCHANGED <<secretKeys, signingKeys, signer, nonces, val, accepts,
                   authNow, authTicks>>
    /\ UNCHANGED <<lifecycleVars, clientVars>>

\* A request that was sent is presented again with another X-JIT-KeyID
\* header, everything else (timestamp, nonce, signature) as it was.
Rekey(m, keyID) ==
    /\ Cardinality(wire) < MaxSends
    /\ m \in wire
    /\ keyID # m.kid
    /\ wire' = wire \cup {[m EXCEPT !.kid = keyID]}
    /\ UNCHANGED <<secretKeys, signingKeys, signer, nonces, val, accepts,
                   authNow, authTicks>>
    /\ UNCHANGED <<lifecycleVars, clientVars>>

\* Requests from a plugin whose clock is off, first deliveries and replays,
\* validated over time against the nonce table.
NextReplay ==
    \/ \E n \in NonceValues, offset \in ClockOffsets : SendSkewed(n, offset)
    \/ \E m \in wire, k \in KeyIds : Rekey(m, k)
    \/ \E v \in Validators : \E m \in wire : ValidateCheck(v, m)
    \/ \E v \in Validators : ValidateStore(v) \/ ValidateReturn(v)
    \/ \E n \in nonces : ExpireNonce(n)
    \/ \E d \in AuthTickSeconds : AuthTick(d)

SpecReplay == Init /\ [][NextReplay]_vars

\* This mutation routes a request whatever ValidateRequest returned.
AuthenticatedAlways(resp) == TRUE

\* Route: "if err := r.Validator.ValidateRequest(...); err != nil" answers
\* 401 before the switch on method and path
Authenticated(resp) == resp = "ok"

\* the status Route answers with: 401 on a validation error; otherwise the
\* handler answers (StatusOK stands for the handler's own status)
RouteStatusCode(resp) == IF Authenticated(resp) THEN StatusOK ELSE StatusUnauthorized

\* Route, validation failed: errorResponse(401), nothing else.
RouteUnauthorized(v) ==
    /\ val[v].pc = "done"
    /\ ~Authenticated(val[v].resp)
    /\ val' = [val EXCEPT ![v] = ValIdle]
    /\ UNCHANGED <<secretKeys, signingKeys, signer, nonces, wire, accepts,
                   authNow, authTicks>>
    /\ UNCHANGED <<lifecycleVars, clientVars>>

\* Route, validation passed: the request (POST /requests) goes to
\* handleCreateRequest, which starts HandleCreateRequest.
RouteDispatch(v, p, dur) ==
    /\ val[v].pc = "done"
    /\ Authenticated(val[v].resp)
    /\ val' = [val EXCEPT ![v] = ValIdle]
    /\ UNCHANGED <<secretKeys, signingKeys, signer, nonces, wire, accepts,
                   authNow, authTicks>>
    /\ CreateValidateSlot(p, "ch1", "acct1", "u_r", dur)
    /\ UNCHANGED clientVars

\* Requests arriving at the API, signed by the plugin or forged, validated
\* and routed; the accepted ones create access requests.
NextInbound ==
    \/ \E n \in NonceValues : Send(n)
    \/ \E m \in ForgedMessages : Forge(m)
    \/ \E v \in Validators : \E m \in wire : ValidateCheck(v, m)
    \/ \E v \in Validators : ValidateStore(v) \/ RouteUnauthorized(v)
    \/ \E v \in Validators, p \in Procs, d \in LifecycleDurations :
            RouteDispatch(v, p, d)
    \/ \E p \in Procs : \/ \E found \in BOOLEAN : CreateLookup(p, found)
                        \/ CreatePut(p)
                        \/ CreateAudit(p)
                        \/ Return(p)
    \/ \E d \in AuthTickSeconds : AuthTick(d)

SpecInbound == Init /\ [][NextInbound]_vars

(***************************************************************************)
(* Properties of request authentication.                                   *)
(***************************************************************************)
\* C5: of the validations presenting the same (key_id, nonce) at most one
\* succeeds within the nonce TTL, racing ones included, and the same
\* request is never accepted (and dispatched to its handler) twice.
C5_OneAcceptPerNonce ==
    \A i \in 1..Len(accepts) : \A j \in 1..Len(accepts) :
        i < j =>
            /\ accepts[i].msg # accepts[j].msg
            /\ (accepts[i].msg.kid = accepts[j].msg.kid
                /\ accepts[i].msg.nonce = accepts[j].msg.nonce)
                    => accepts[j].at > accepts[i].at + NonceTTL

\* two validations of one request raced past CheckNonce; one was accepted
\* and the other lost at StoreNonce
C5_Witness ==
    \E v \in Validators :
        /\ val[v].pc = "done"
        /\ val[v].resp = "store_failed"
        /\ \E i \in 1..Len(accepts) : accepts[i].msg = val[v].msg

\* the secret a request was signed with
SignedWith(m) == m.sig[1]

\* C7: a validation fails the signature check only for a secret that is
\* not loaded, and passes it only for one that is: with old and new loaded
\* requests signed with either pass, with the old key removed requests
\* signed with it fail; and through add-new, roll-signer, remove-old no
\* request signed with the signer's current key fails the signature check.
C7_RotationContinuity ==
    [][\A v \in Validators :
        (val[v].pc = "idle" /\ val'[v].pc # "idle") =>
            /\ val'[v].resp = "invalid_signature"
                    => SignedWith(val'[v].msg) \notin Rng(signingKeys)
            /\ val'[v].pc = "store"
                    => SignedWith(val'[v].msg) \in Rng(signingKeys)
            /\ (val'[v].msg.kid = signer.kid
                /\ SignedWith(val'[v].msg) = signer.secret)
                    => val'[v].resp # "invalid_signature"]_vars

\* after the rotation a request signed with the old secret is rejected,
\* a request signed with the new secret having been accepted
C7_Witness ==
    /\ \E v \in Validators :
        /\ val[v].resp = "invalid_signature"
        /\ SignedWith(val[v].msg) = KeySecret["k1"]
    /\ Rng(signingKeys) = {KeySecret["k2"]}
    /\ \E i \in 1..Len(accepts) : SignedWith(accepts[i].msg) = KeySecret["k2"]

\* the validation in slot v ends in this step with an error
Rejects(v) ==
    /\ val[v].pc # "done"
    /\ val'[v].pc = "done"
    /\ val'[v].resp # "ok"

\* C24: a request that fails validation (missing header, timestamp skew,
\* replayed nonce, bad signature) is answered 401 and changes nothing: no
\* handler is started for it, no request, binding or audit row is written
\* and the nonce table is as before; a nonce is written only by the
\* validation that succeeds, and a handler starts only for a request whose
\* validation succeeded.
C24_FailedValidationChangesNothing ==
    [][/\ \A v \in Validators :
            Rejects(v) => /\ nonces' = nonces
                          /\ accepts' = accepts
                          /\ lifecycleVars' = lifecycleVars
       /\ \A v \in Validators :
            (val[v].pc = "done" /\ val[v].resp # "ok" /\ val'[v] # val[v])
                => /\ RouteStatusCode(val[v].resp) = StatusUnauthorized
                   /\ nonces' = nonces
                   /\ accepts' = accepts
                   /\ lifecycleVars' = lifecycleVars
       /\ nonces' # nonces
            => \E v \in Validators :
                /\ val[v].pc = "store"
                /\ val'[v].resp = "ok"
                /\ \E n \in nonces' \ nonces :
                    /\ n.key_id = val[v].msg.kid
                    /\ n.nonce = val[v].msg.nonce
                    /\ nonces' = nonces \cup {n}
       /\ (\E p \in Procs : IsIdle(p) /\ api'[p].pc # "idle")
            => \E v \in Validators :
                /\ val[v].pc = "done"
                /\ val[v].resp = "ok"
                /\ val'[v] = ValIdle]_vars

\* one request was accepted and created an access request; its replay and
\* a forged request were rejected, and the nonce table holds the one nonce
C24_Witness ==
    /\ \E v \in Validators : val[v].pc = "done" /\ val[v].resp = "nonce_used"
    /\ \E v \in Validators :
        /\ val[v].pc = "done"
        /\ val[v].resp \in {"invalid_signature", "missing_headers"}
    /\ Cardinality(nonces) = 1
    /\ Len(accepts) = 1
    /\ \E r \in ReqIds : Exists(r)

\* the validation in slot v starts in this step, with all headers present
Checks(v) ==
    /\ val[v].pc = "idle"
    /\ val'[v].pc # "idle"
    /\ ~MissingHeaders(val'[v].msg)

\* C35: a validation rejects for the timestamp exactly when the timestamp
\* is more than 300 s from now, in the past or in the future; a request
\* exactly 300 s away, with an unused nonce and a signature of a loaded key,
\* passes the checks and is accepted.
C35_SkewBoundary ==
    [][\A v \in Validators :
        Checks(v) =>
            LET m == val'[v].msg
                age == authNow - m.ts
            IN /\ val'[v].resp = "timestamp_skew" <=> (age > 300 \/ age < 0 - 300)
               /\ (/\ age \in {300, 0 - 300}
                   /\ ~CheckNonce(m.kid, m.nonce)
                   /\ SignedWith(m) \in Rng(signingKeys))
                    => val'[v].pc = "store"]_vars

\* accepted: one request dated 300 s in the future and one dated 300 s in
\* the past
C35_Witness ==
    /\ \E i \in 1..Len(accepts) : accepts[i].msg.ts - accepts[i].at = 300
    /\ \E i \in 1..Len(accepts) : accepts[i].at - accepts[i].msg.ts = 300

\* what the signature covers, with the signature: the request without its
\* key id header
SignedTuple(m) == <<m.ts, m.nonce, m.sig>>

\* C36: a signed tuple (timestamp, nonce, method, path, body, signature) is
\* accepted at most once, whatever key id header it is presented with.
C36_SignedTupleAcceptedOnce ==
    \A i \in 1..Len(accepts) : \A j \in 1..Len(accepts) :
        i < j => SignedTuple(accepts[i].msg) # SignedTuple(accepts[j].msg)

\* the request was accepted before
Accepted(m) == \E i \in 1..Len(accepts) : accepts[i].msg = m

\* C40: the nonce of an accepted request is stored with expires_at 600 s
\* after the validation, which is not earlier than the last instant at
\* which the request's timestamp passes the skew check (timestamp + 300 s);
\* so the replay of an accepted request is rejected whenever it is
\* presented, for the timestamp or for the nonce.
C40_ReplayRejectedForever ==
    [][/\ \A v \in Validators :
            (val[v].pc = "store" /\ val'[v].resp = "ok")
                => \E n \in nonces' \ nonces :
                    /\ n.key_id = val[v].msg.kid
                    /\ n.nonce = val[v].msg.nonce
                    /\ n.expires_at = authNow + 600
                    /\ n.expires_at >= val[v].msg.ts + 300
       /\ \A v \in Validators :
            (Checks(v) /\ Accepted(val'[v].msg))
                => /\ val'[v].pc = "done"
                   /\ val'[v].resp \in {"timestamp_skew", "nonce_used"}]_vars

\* a request dated 300 s ahead was accepted; its replay 600 s later, in the
\* last second its timestamp passes the skew check and the second in which
\* its nonce expires, is rejected for the nonce
C40_Witness ==
    \E v \in Validators :
        /\ val[v].pc = "done"
        /\ val[v].resp = "nonce_used"
        /\ authNow - val[v].msg.ts = 300
        /\ \E i \in 1..Len(accepts) :
            /\ accepts[i].msg = val[v].msg
            /\ accepts[i].msg.ts - accepts[i].at = 300
        /\ \E n \in nonces :
            /\ n.key_id = val[v].msg.kid
            /\ n.nonce = val[v].msg.nonce
            /\ n.expires_at = authNow

(***************************************************************************)
(* The client libraries: identity.Client.RevokeAccess against the identity *)
(* provider, and webhook.Client.Notify against the plugin.                 *)
(***************************************************************************)
\* retryBackoffs of internal/identity and of internal/webhook, seconds
IdentityBackoffs == <<1, 4, 16>>

WebhookBackoffs == <<1, 2, 4>>

Pairs == Accounts \X Users

notAssigned == <<configs, requests, auditLog, hist, grantCommits, callbacks,
                 api, wf, rec, createdUnder, now, ticks>>

\* A failed attempt of a retry loop "for attempt := 0; attempt <=
\* len(retryBackoffs); attempt++": the next iteration sleeps first, and
\* after the last one the call returns the error.
AttemptFailed(call, backoffs) ==
    IF call.attempt = Len(backoffs)
    THEN [call EXCEPT !.pc = "done", !.result = "failed"]
    ELSE [call EXCEPT !.pc = "sleep", !.attempt = @ + 1]

\* the select on ctx.Done() and time.After(backoff) before a retry
AfterBackoff(call, next) ==
    IF call.cancelled THEN [call EXCEPT !.pc = "done", !.result = "ctx_err"]
    ELSE [call EXCEPT !.pc = next]

\* what DeleteAccountAssignment answers: the deletion is accepted when the
\* assignment exists; when it is already deleted the provider returns a
\* ConflictException or ResourceNotFoundException ("... does not exist");
\* any call can be throttled
DeleteAnswers(pair) ==
    (IF assigned[pair] THEN {"accepted"}
     ELSE {"ConflictException", "ResourceNotFoundException", "does not exist"})
        \cup {"ThrottlingException"}

\* This mutation returns every error of DeleteAccountAssignment.
AlreadyDeletedNever(errMsg) == FALSE

\* strings.Contains(errMsg, "ConflictException") || strings.Contains(errMsg,
\* "ResourceNotFoundException") || strings.Contains(errMsg, "does not exist")
AlreadyDeleted(errMsg) ==
    errMsg \in {"ConflictException", "ResourceNotFoundException", "does not exist"}

\* Client.GrantAccess succeeded for the pair (made by any invocation).
IdGrantAccess(pair) ==
    /\ ~assigned[pair]
    /\ assigned' = [assigned EXCEPT ![pair] = TRUE]
    /\ UNCHANGED notAssigned
    /\ UNCHANGED <<authVars, clientVars>>

\* Client.RevokeAccess is called for the pair.
RevokeAccessStart(pair) ==
    /\ idc.call.pc = "idle"
    /\ Len(idc.log) < MaxIdentityCalls
    /\ idc' = [idc EXCEPT !.call = [IdcIdle EXCEPT !.pc = "delete", !.pair = pair]]
    /\ UNCHANGED <<lifecycleVars, authVars, hook>>

\* revokeAccessOnce: DeleteAccountAssignment and its error handling.
RevokeDelete(answer) ==
    /\ idc.call.pc = "delete"
    /\ answer \in DeleteAnswers(idc.call.pair)
    /\ idc' = [idc EXCEPT !.call =
            LET call == [@ EXCEPT !.answer = answer]
            IN IF answer = "accepted" THEN [call EXCEPT !.pc = "poll"]
               ELSE IF AlreadyDeleted(answer)
                    THEN [call EXCEPT !.pc = "done", !.result = "nil"]
               ELSE AttemptFailed(call, IdentityBackoffs)]
    /\ UNCHANGED <<lifecycleVars, authVars, hook>>

DeletionStatuses == {"SUCCEEDED", "FAILED", "TIMED_OUT"}

\* pollDeletionStatus: the deletion succeeded, failed, or was still in
\* progress after the last poll.
RevokePoll(status) ==
    /\ idc.call.pc = "poll"
    /\ assigned' = IF status = "SUCCEEDED"
                   THEN [assigned EXCEPT ![idc.call.pair] = FALSE] ELSE assigned
    /\ idc' = [idc EXCEPT !.call =
            IF status = "SUCCEEDED" THEN [@ EXCEPT !.pc = "done", !.result = "nil"]
            ELSE AttemptFailed(@, IdentityBackoffs)]
    /\ UNCHANGED notAssigned
    /\ UNCHANGED <<authVars, hook>>

\* RevokeAccess: the backoff before the next attempt.
RevokeSleep ==
    /\ idc.call.pc = "sleep"
    /\ idc' = [idc EXCEPT !.call = AfterBackoff(@, "delete")]
    /\ UNCHANGED <<lifecycleVars, authVars, hook>>

\* The invocation that made the call is cancelled (its deadline passes).
RevokeCancel ==
    /\ idc.call.pc \in {"delete", "poll", "sleep"}
    /\ ~idc.call.cancelled
    /\ idc' = [idc EXCEPT !.call.cancelled = TRUE]
    /\ UNCHANGED <<lifecycleVars, authVars, hook>>

\* RevokeAccess returns.
RevokeAccessReturn ==
    /\ idc.call.pc = "done"
    /\ idc' = [call |-> IdcIdle,
               log |-> Append(idc.log, [pair |-> idc.call.pair,
                                        answer |-> idc.call.answer,
                                        result |-> idc.call.result])]
    /\ UNCHANGED <<lifecycleVars, authVars, hook>>

\* This mutation takes only 200 for a delivery.
DeliveredOnlyOK(code) == code = StatusOK

\* send: "resp.StatusCode < 200 || resp.StatusCode >= 300" is an error; 0
\* stands for the error of httpClient.Do (no response)
Delivered(code) == ~(code < 200 \/ code >= 300)

\* the responses of the plugin; a request made with a cancelled context
\* gets none
ResponseCodes(cancelled) == IF cancelled THEN {0} ELSE {0, 199, 200, 299, 300, 500}

\* Client.Notify is called.
NotifyStart ==
    /\ hook.call.pc = "idle"
    /\ hook.calls < MaxNotifyCalls
    /\ hook' = [hook EXCEPT !.call = [HookIdle EXCEPT !.pc = "send"]]
    /\ UNCHANGED <<lifecycleVars, authVars, idc>>

\* Notify: one attempt, c.send.
NotifySend(code) ==
    /\ hook.call.pc = "send"
    /\ code \in ResponseCodes(hook.call.cancelled)
    /\ hook' = [hook EXCEPT !.call =
            LET call == [@ EXCEPT !.sends = @ + 1, !.code = code]
            IN IF Delivered(code) THEN [call EXCEPT !.pc = "done", !.result = "nil"]
               ELSE AttemptFailed(call, WebhookBackoffs)]
    /\ UNCHANGED <<lifecycleVars, authVars, idc>>

\* Notify: the backoff before the next attempt.
NotifySleep ==
    /\ hook.call.pc = "sleep"
    /\ hook' = [hook EXCEPT !.call =
            IF @.cancelled THEN AfterBackoff(@, "send")
            ELSE [AfterBackoff(@, "send")
                    EXCEPT !.slept = Append(@, WebhookBackoffs[hook.call.attempt])]]
    /\ UNCHANGED <<lifecycleVars, authVars, idc>>

\* The invocation that made the call is cancelled.
NotifyCancel ==
    /\ hook.call.pc \in {"send", "sleep"}
    /\ ~hook.call.cancelled
    /\ hook' = [hook EXCEPT !.call.cancelled = TRUE]
    /\ UNCHANGED <<lifecycleVars, authVars, idc>>

\* Notify returns.
NotifyReturn ==
    /\ hook.call.pc = "done"
    /\ hook' = [call |-> HookIdle, calls |-> hook.calls + 1]
    /\ UNCHANGED <<lifecycleVars, authVars, idc>>

NextClients ==
    \/ \E pair \in Pairs : IdGrantAccess(pair) \/ RevokeAccessStart(pair)
    \/ \E answer \in {"accepted", "ConflictException", "ResourceNotFoundException",
                      "does not exist", "ThrottlingException"} : RevokeDelete(answer)
    \/ \E status \in DeletionStatuses : RevokePoll(status)
    \/ RevokeSleep
    \/ RevokeCancel
    \/ RevokeAccessReturn
    \/ NotifyStart
    \/ \E code \in ResponseCodes(FALSE) : NotifySend(code)
    \/ NotifySleep
    \/ NotifyCancel
    \/ NotifyReturn

SpecClients == Init /\ [][NextClients]_vars

\* C33: a RevokeAccess for a pair whose assignment is already absent, which
\* the provider answers with ConflictException, ResourceNotFoundException or
\* "does not exist", returns success and changes nothing at the provider; a
\* RevokeAccess that returns success leaves no assignment for the pair; so
\* a revoke after a revoke succeeds again.
C33_RevokeIdempotent ==
    [][LET pair == idc.call.pair
       IN /\ (/\ idc.call.pc = "delete"
              /\ idc'.call # idc.call
              /\ ~assigned[pair]
              /\ idc'.call.answer \in {"ConflictException",
                                       "ResourceNotFoundException",
                                       "does not exist"})
                => /\ idc'.call.pc = "done"
                   /\ idc'.call.result = "nil"
                   /\ assigned' = assigned
          /\ (idc.call.pc # "done" /\ idc'.call.pc = "done"
              /\ idc'.call.result = "nil")
                => ~assigned'[pair]]_vars

\* the assignment was revoked, and a second revoke of the same pair, which
\* the provider answered with "already deleted", succeeded as well
C33_Witness ==
    /\ Len(idc.log) = 2
    /\ idc.log[1].pair = idc.log[2].pair
    /\ idc.log[1].answer = "accepted"
    /\ idc.log[1].result = "nil"
    /\ idc.log[2].answer = "ResourceNotFoundException"
    /\ idc.log[2].result = "nil"
    /\ ~assigned[idc.log[1].pair]

\* what is left of a Notify call: the attempts and sleeps still possible
NotifyMeasure(call) ==
    IF call.pc = "done" THEN 0
    ELSE 2 * (3 - call.attempt) + (IF call.pc = "sleep" THEN 2 ELSE 1)

\* C34: Notify makes an attempt, and after a failed one sleeps 1 s, 2 s and
\* 4 s before the three retries; it returns nil at the first attempt that
\* gets a 2xx response and makes no further attempt; it returns an error
\* when all four attempts failed; a cancelled context ends the call with an
\* error at the next sleep, without another attempt; and every step of the
\* call brings it nearer to its end.
C34_NotifyRetriesAndTerminates ==
    [][LET call == hook.call
           after == hook'.call
       IN /\ call.slept = SubSeq(<<1, 2, 4>>, 1, Len(call.slept))
          /\ (call.pc = "send" /\ after.sends # call.sends)
                => /\ after.sends = call.sends + 1
                   /\ after.sends = Len(call.slept) + 1
                   /\ after.sends <= 4
                   /\ IF after.code >= 200 /\ after.code <= 299
                      THEN after.pc = "done" /\ after.result = "nil"
                      ELSE IF after.sends = 4
                      THEN /\ after.pc = "done"
                           /\ after.result = "failed"
                           /\ after.slept = <<1, 2, 4>>
                      ELSE after.pc = "sleep"
          /\ (call.pc = "sleep" /\ after.pc # "sleep")
                => IF call.cancelled
                   THEN /\ after.pc = "done"
                        /\ after.result = "ctx_err"
                        /\ after.sends = call.sends
                        /\ after.slept = call.slept
                   ELSE /\ after.pc = "send"
                        /\ Len(after.slept) = Len(call.slept) + 1
          /\ (call.pc = "done" /\ after.pc = "done") => after.sends = call.sends
          /\ (call.pc \in {"send", "sleep"}
              /\ <<after.pc, after.attempt>> # <<call.pc, call.attempt>>)
                => NotifyMeasure(after) < NotifyMeasure(call)]_vars

\* a Notify call failed twice, slept 1 s and 2 s, and returned nil at its
\* third attempt, which the plugin answered with 299
C34_Witness ==
    /\ hook.call.pc = "done"
    /\ hook.call.result = "nil"
    /\ hook.call.sends = 3
    /\ hook.call.slept = <<1, 2>>
    /\ hook.call.code = 299

(***************************************************************************)
(* Bindings: POST /config/bind (HandleBindAccount), the operator's edits   *)
(* of a binding's settings, and request creation under them.               *)
(***************************************************************************)
\* the channels that hold a binding of the account (index gsi_account)
BoundChannels(acct) == {ch \in Channels : configs[<<ch, acct>>] # NoCfg}

\* GetChannelForAccount and the "bound to a different channel" check:
\* the query returns one binding of the account (Limit 1), or none.
BindCheck(p, ch, acct, found) ==
    /\ Free(p)
    /\ IF BoundChannels(acct) = {} THEN found = "none"
                                   ELSE found \in BoundChannels(acct)
    /\ LET slot == [Idle EXCEPT !.op = "bind", !.ch = ch, !.acct = acct]
       IN api' = [api EXCEPT ![p] =
            IF found # "none" /\ found # ch THEN Done(slot, "already_bound")
            ELSE [slot EXCEPT !.pc = "config"]]
    /\ UNCHANGED apiOnly
    /\ UNCHANGED <<authVars, clientVars>>

\* GetConfig(channel, account): an existing binding keeps its settings, a
\* new one gets the defaults.
BindGetConfig(p) ==
    /\ At(p, "bind", "config")
    /\ LET existingCfg == GetConfig(api[p].ch, api[p].acct)
       IN api' = [api EXCEPT ![p] = [@ EXCEPT !.pc = "put",
            !.cfg = IF existingCfg # NoCfg THEN existingCfg
                    ELSE JitConfig({}, FALSE, DefaultMaxRequestHours)]]
    /\ UNCHANGED apiOnly
    /\ UNCHANGED <<authVars, clientVars>>

\* PutConfig: an unconditional put of the binding.
BindPut(p) ==
    /\ At(p, "bind", "put")
    /\ configs' = [configs EXCEPT ![<<api[p].ch, api[p].acct>>] = api[p].cfg]
    /\ api' = [api EXCEPT ![p] = Done(@, "ok")]
    /\ UNCHANGED <<requests, auditLog, hist, grantCommits, callbacks, assigned,
                   wf, rec, createdUnder, now, ticks>>
    /\ UNCHANGED <<authVars, clientVars>>

\* the values an operator gives max_request_hours besides the default
OperatorMaxHours == {0, 1}

\* An operator edits max_request_hours of a binding in the table.
OperatorSetMaxRequestHours(ch, acct, hours) ==
    /\ configs[<<ch, acct>>] # NoCfg
    /\ configs[<<ch, acct>>].maxRequestHours # hours
    /\ configs' = [configs EXCEPT ![<<ch, acct>>].maxRequestHours = hours]
    /\ UNCHANGED <<requests, auditLog, hist, grantCommits, callbacks, assigned,
                   api, wf, rec, createdUnder, now, ticks>>
    /\ UNCHANGED <<authVars, clientVars>>

PolicyDurations == {60, 120}

InitPolicy ==
    /\ AuthInit
    /\ ClientInit
    /\ configs = [k \in Channels \X Accounts |-> NoCfg]
    /\ NothingRequested

ApiBind(p) ==
    \/ \E ch \in Channels, acct \in Accounts, found \in Channels \cup {"none"} :
            BindCheck(p, ch, acct, found)
    \/ BindGetConfig(p)
    \/ BindPut(p)

PolicyCreate(p) ==
    \/ \E ch \in Channels, acct \in Accounts, d \in PolicyDurations :
            CreateValidate(p, ch, acct, "u_r", d)
    \/ \E found \in BOOLEAN : CreateLookup(p, found)
    \/ CreatePut(p)
    \/ CreateAudit(p)

NextPolicy ==
    \/ \E p \in Procs : ApiBind(p) \/ PolicyCreate(p) \/ Return(p)
    \/ \E ch \in Channels, acct \in Accounts, h \in OperatorMaxHours :
            OperatorSetMaxRequestHours(ch, acct, h)

SpecPolicy == InitPolicy /\ [][NextPolicy]_vars

(***************************************************************************)
(* Properties of bindings and of creation under them.                      *)
(***************************************************************************)
\* C9: an account is bound to at most one channel, whatever the
\* interleaving of the binds.
C9_AccountBoundToOneChannel ==
    \A acct \in Accounts : Cardinality(BoundChannels(acct)) <= 1

====
